---- MODULE Spec2Model ----
(***************************************************************************)
(* Rules engine of src/flask_react/backend/chess.py as a state machine.    *)
(* A position string "r,c" is modelled by an integer code (pos_str encodes,*)
(* pos_tup decodes); a Python tuple (r, c) is the TLA+ tuple <<r, c>>.     *)
(* A Board is the record of its fields; the state variables hold the       *)
(* fields of the one live Board.                                           *)
(***************************************************************************)
EXTENDS Integers, Sequences, FiniteSets, TLC

VARIABLES
    fen_string,        \* the string the Board was constructed from
    data,              \* Board.data: position -> Piece
    color_move,        \* Board.color_move
    castling_perm,     \* Board.castling_perm: (color, side) -> bool
    enpassant_target,  \* Board.enpassant_target
    all_moves_cache,   \* Board.all_moves_cache: position -> moves
    raised,            \* the last call ended in an exception
    last_move,         \* the Move the last execute_move call was given
    last_cached,       \* whether that Move was in all_moves_cache when given
    plies,             \* number of execute_move calls so far
    requests,          \* base.py: each choose_move request's position and its local move
    root,              \* root.py: the fields of the Root window
    game               \* game.py: a Board and the last call made on it

vars == <<fen_string, data, color_move, castling_perm, enpassant_target, all_moves_cache,
          raised, last_move, last_cached, plies, requests, root, game>>

\* Number of execute_move calls explored from each constructed board.
MaxPlies == 2

\* None, where a position string is expected
None == -1

\* None, where a CastlingFlag is expected
NO_FLAG == "None"

WHITE == "white"
BLACK == "black"
NONE == "none"

QUEEN_SIDE == "QUEEN_SIDE"
KING_SIDE == "KING_SIDE"
KING_MOVED == "KING_MOVED"
ROOK_MOVED == "ROOK_MOVED"

----------------------------------------------------------------------------
\* Positions and colors

\* f"{row},{col}": the strings of the 64 squares are coded 0..63 in row-major
\* order, every other string "r,c" by a code above them.
pos_str(row, col) ==
    IF row >= 0 /\ row <= 7 /\ col >= 0 /\ col <= 7 THEN row * 8 + col
    ELSE 64 + (row + 16) * 64 + (col + 16)

\* tuple(int(coord) for coord in pos_str.split(","))
pos_tup(pos) ==
    IF pos < 64 THEN <<pos \div 8, pos % 8>>
    ELSE <<((pos - 64) \div 64) - 16, ((pos - 64) % 64) - 16>>

Max2(a, b) == IF a >= b THEN a ELSE b

Min2(a, b) == IF a <= b THEN a ELSE b

in_bounds(pos) ==
    LET coords == pos_tup(pos)
    IN  Max2(coords[1], coords[2]) <= 7 /\ Min2(coords[1], coords[2]) >= 0

add_pos(pos, delta) ==
    LET coords == pos_tup(pos)
    IN  pos_str(coords[1] + delta[1], coords[2] + delta[2])

dir(color) == CASE color = WHITE -> -1 [] color = BLACK -> 1 [] OTHER -> 0

other(color) == CASE color = WHITE -> BLACK [] color = BLACK -> WHITE [] OTHER -> NONE

back_rank(color) == CASE color = WHITE -> 7 [] color = BLACK -> 0 [] OTHER -> -1

pawn_rank(color) == CASE color = WHITE -> 6 [] color = BLACK -> 1 [] OTHER -> -1

----------------------------------------------------------------------------
\* Pieces

Piece(color, type) == [color |-> color, type |-> type]

Empty == Piece(NONE, "none")

Pawn(color) == Piece(color, "pawn")

Rook(color) == Piece(color, "rook")

Knight(color) == Piece(color, "knight")

Bishop(color) == Piece(color, "bishop")

Queen(color) == Piece(color, "queen")

King(color) == Piece(color, "king")

\* Piece.__bool__: only Empty is falsy.
Truthy(piece) == piece # Empty

\* board[pos]: the dictionary lookup; a missing key is a KeyError.
KeyError == [color |-> "KeyError", type |-> "KeyError"]

At(board, pos) == IF pos \in DOMAIN board.data THEN board.data[pos] ELSE KeyError

FEN_MAP ==
    [p \in {"p", "n", "b", "r", "q", "k", "P", "N", "B", "R", "Q", "K", " "} |->
        CASE p = "p" -> Pawn(BLACK)
          [] p = "n" -> Knight(BLACK)
          [] p = "b" -> Bishop(BLACK)
          [] p = "r" -> Rook(BLACK)
          [] p = "q" -> Queen(BLACK)
          [] p = "k" -> King(BLACK)
          [] p = "P" -> Pawn(WHITE)
          [] p = "N" -> Knight(WHITE)
          [] p = "B" -> Bishop(WHITE)
          [] p = "R" -> Rook(WHITE)
          [] p = "Q" -> Queen(WHITE)
          [] p = "K" -> King(WHITE)
          [] OTHER -> Empty]

----------------------------------------------------------------------------
\* Geometry

Quadrants == {<<1, 1>>, <<1, -1>>, <<-1, 1>>, <<-1, -1>>}

Sides == {<<0, 1>>, <<1, 0>>, <<0, -1>>, <<-1, 0>>}

Squares == {pos_str(row, col) : row \in 0..7, col \in 0..7}

Deltas(directions, distance) ==
    {<<q[1] * d, q[2] * d>> : q \in directions, d \in 1..distance}

\* A plausible fault: the squares are not tested with in_bounds.
Reach_Unbounded(pos, deltas) == {add_pos(pos, delta) : delta \in deltas}

\* (to for delta in deltas if in_bounds(to := add_pos(pos, delta)))
Reach(pos, deltas) == {to \in {add_pos(pos, delta) : delta \in deltas} : in_bounds(to)}

\* The three generators, tabulated once for the 64 squares.
DiagonalTable == [pos \in Squares |-> [distance \in 1..7 |-> Reach(pos, Deltas(Quadrants, distance))]]

PerpendicularTable == [pos \in Squares |-> [distance \in 1..7 |-> Reach(pos, Deltas(Sides, distance))]]

LShapedDeltas == {<<q[1] * m[1], q[2] * m[2]>> : q \in Quadrants, m \in {<<1, 2>>, <<2, 1>>}}

LShapedTable == [pos \in Squares |-> Reach(pos, LShapedDeltas)]

diagonal_moves(pos, distance) ==
    IF pos \in Squares /\ distance \in 1..7 THEN DiagonalTable[pos][distance]
    ELSE Reach(pos, Deltas(Quadrants, distance))

perpendicular_moves(pos, distance) ==
    IF pos \in Squares /\ distance \in 1..7 THEN PerpendicularTable[pos][distance]
    ELSE Reach(pos, Deltas(Sides, distance))

l_shaped_moves(pos) ==
    IF pos \in Squares THEN LShapedTable[pos] ELSE Reach(pos, LShapedDeltas)

\* range(a, b, 1 if b > a else -1): its length and its i-th value (i from 1)
RangeLen(a, b) == IF b > a THEN b - a ELSE a - b

RangeAt(a, b, i) == IF b > a THEN a + i - 1 ELSE a - i + 1

\* A plausible fault: the early "return False" left in.
obstruction_Never(board, frm, to) == FALSE

\* A plausible fault: the ranges run up to and including the destination.
obstruction_ToDestination(board, frm, to) ==
    LET frm_row == pos_tup(frm)[1]
        frm_col == pos_tup(frm)[2]
        to_row == pos_tup(to)[1]
        to_col == pos_tup(to)[2]
        ROWS == RangeLen(frm_row, to_row)
        COLS == RangeLen(frm_col, to_col)
    IN  IF Min2(ROWS, COLS) = 1 THEN FALSE
        ELSE IF ROWS > 0 /\ COLS > 0 THEN
            \E i \in 1..(Min2(ROWS, COLS) + 1) :
                LET pos == pos_str(RangeAt(frm_row, to_row, i), RangeAt(frm_col, to_col, i))
                IN  pos # frm /\ Truthy(At(board, pos))
        ELSE IF ROWS > 0 THEN
            \E i \in 1..(ROWS + 1) :
                LET pos == pos_str(RangeAt(frm_row, to_row, i), frm_col)
                IN  pos # frm /\ Truthy(At(board, pos))
        ELSE
            \E i \in 1..(COLS + 1) :
                LET pos == pos_str(frm_row, RangeAt(frm_col, to_col, i))
                IN  pos # frm /\ Truthy(At(board, pos))

obstruction(board, frm, to) ==
    LET frm_row == pos_tup(frm)[1]
        frm_col == pos_tup(frm)[2]
        to_row == pos_tup(to)[1]
        to_col == pos_tup(to)[2]
        ROWS == RangeLen(frm_row, to_row)
        COLS == RangeLen(frm_col, to_col)
    IN  IF Min2(ROWS, COLS) = 1 THEN FALSE
        ELSE IF ROWS > 0 /\ COLS > 0 THEN
            \E i \in 1..Min2(ROWS, COLS) :
                LET pos == pos_str(RangeAt(frm_row, to_row, i), RangeAt(frm_col, to_col, i))
                IN  pos # frm /\ Truthy(At(board, pos))
        ELSE IF ROWS > 0 THEN
            \E i \in 1..ROWS :
                LET pos == pos_str(RangeAt(frm_row, to_row, i), frm_col)
                IN  pos # frm /\ Truthy(At(board, pos))
        ELSE
            \E i \in 1..COLS :
                LET pos == pos_str(frm_row, RangeAt(frm_col, to_col, i))
                IN  pos # frm /\ Truthy(At(board, pos))

----------------------------------------------------------------------------
\* Attack detection

\* A plausible fault: the diagonals are not looked at.
kingcheck_safe_NoDiagonals(board, pos, color) ==
    LET enemy_color == other(color)
    IN  /\ ~ \E m \in l_shaped_moves(pos) : At(board, m) = Knight(enemy_color)
        /\ ~ \E m \in perpendicular_moves(pos, 7) :
                /\ At(board, m) \in {Queen(enemy_color), Rook(enemy_color)}
                /\ ~ obstruction(board, pos, m)
        /\ ~ \E m \in perpendicular_moves(pos, 1) \cup diagonal_moves(pos, 1) :
                At(board, m) = King(enemy_color)
        /\ ~ \E side \in {1, -1} :
                /\ in_bounds(add_pos(pos, <<dir(color), side>>))
                /\ At(board, add_pos(pos, <<dir(color), side>>)) = Pawn(enemy_color)

kingcheck_safe(board, pos, color) ==
    LET enemy_color == other(color)
    IN  /\ ~ \E m \in l_shaped_moves(pos) : At(board, m) = Knight(enemy_color)
        /\ ~ \E m \in perpendicular_moves(pos, 7) :
                /\ At(board, m) \in {Queen(enemy_color), Rook(enemy_color)}
                /\ ~ obstruction(board, pos, m)
        /\ ~ \E m \in diagonal_moves(pos, 7) :
                /\ At(board, m) \in {Queen(enemy_color), Bishop(enemy_color)}
                /\ ~ obstruction(board, pos, m)
        /\ ~ \E m \in perpendicular_moves(pos, 1) \cup diagonal_moves(pos, 1) :
                At(board, m) = King(enemy_color)
        /\ ~ \E side \in {1, -1} :
                /\ in_bounds(add_pos(pos, <<dir(color), side>>))
                /\ At(board, add_pos(pos, <<dir(color), side>>)) = Pawn(enemy_color)

\* dict order of Board.data: the keys in the order set_fen inserted them
KeyIndex(pos) == pos_tup(pos)[1] * 8 + pos_tup(pos)[2]

KingSquares(board, color) ==
    {pos \in DOMAIN board.data : board.data[pos] = King(color)}

\* next(...) over an exhausted generator raises StopIteration
StopIteration == -2

find_king(board, color) ==
    LET kings == KingSquares(board, color)
    IN  IF kings = {} THEN StopIteration
        ELSE CHOOSE pos \in kings : \A q \in kings : KeyIndex(pos) <= KeyIndex(q)

\* A plausible fault: the king of the side that is not to move is tested.
checked_OtherKing(board) ==
    LET king == find_king(board, other(board.color_move))
    IN  king # StopIteration /\ ~ kingcheck_safe(board, king, other(board.color_move))

\* Board.checked; find_king raising StopIteration is told apart by the callers
\* (final_checks_raises), which never use the value on a board without that king.
checked(board) ==
    LET king == find_king(board, board.color_move)
    IN  king # StopIteration /\ ~ kingcheck_safe(board, king, board.color_move)

----------------------------------------------------------------------------
\* Moves

DictSet(d, key, value) == (key :> value) @@ d

\* A plausible fault: a castling move does not relocate the rook.
Move_NoRook(piece, frm, to, enpassant_capture, ep_target, castling_flag, promote) ==
    LET color == piece.color
        u0 == frm :> Empty
        u1 == DictSet(u0, to, IF promote THEN Queen(color) ELSE piece)
        u2 == IF enpassant_capture # None THEN DictSet(u1, enpassant_capture, Empty) ELSE u1
    IN  [updates |-> u2, piece |-> piece, frm |-> frm, to |-> to,
         enpassant_capture |-> enpassant_capture, enpassant_target |-> ep_target,
         castling_flag |-> castling_flag]

\* A plausible fault: promote is not looked at.
Move_NoPromotion(piece, frm, to, enpassant_capture, ep_target, castling_flag, promote) ==
    LET color == piece.color
        u0 == frm :> Empty
        u1 == DictSet(u0, to, piece)
        u2 == IF enpassant_capture # None THEN DictSet(u1, enpassant_capture, Empty) ELSE u1
        u3 == IF castling_flag = QUEEN_SIDE
              THEN DictSet(DictSet(u2, pos_str(back_rank(color), 3), Rook(color)),
                           pos_str(back_rank(color), 0), Empty)
              ELSE IF castling_flag = KING_SIDE
              THEN DictSet(DictSet(u2, pos_str(back_rank(color), 5), Rook(color)),
                           pos_str(back_rank(color), 7), Empty)
              ELSE u2
    IN  [updates |-> u3, piece |-> piece, frm |-> frm, to |-> to,
         enpassant_capture |-> enpassant_capture, enpassant_target |-> ep_target,
         castling_flag |-> castling_flag]

\* Move(...) with __post_init__ building the updates dictionary
Move(piece, frm, to, enpassant_capture, ep_target, castling_flag, promote) ==
    LET color == piece.color
        u0 == frm :> Empty
        u1 == DictSet(u0, to, IF promote THEN Queen(color) ELSE piece)
        u2 == IF enpassant_capture # None THEN DictSet(u1, enpassant_capture, Empty) ELSE u1
        u3 == IF castling_flag = QUEEN_SIDE THEN
                  DictSet(DictSet(u2, pos_str(back_rank(color), 3), Rook(color)),
                          pos_str(back_rank(color), 0), Empty)
              ELSE IF castling_flag = KING_SIDE THEN
                  DictSet(DictSet(u2, pos_str(back_rank(color), 5), Rook(color)),
                          pos_str(back_rank(color), 7), Empty)
              ELSE u2
    IN  [updates |-> u3, piece |-> piece, frm |-> frm, to |-> to,
         enpassant_capture |-> enpassant_capture, enpassant_target |-> ep_target,
         castling_flag |-> castling_flag]

NoMove == [frm |-> None, to |-> None]

RECURSIVE SetItems_Pop(_, _, _)
\* A plausible fault: an emptied square is deleted from the dictionary.
SetItems_Pop(d, updates, keys) ==
    IF keys = {} THEN d
    ELSE LET pos == CHOOSE k \in keys : TRUE
         IN  SetItems_Pop(IF updates[pos] = Empty
                          THEN [k \in DOMAIN d \ {pos} |-> d[k]]
                          ELSE DictSet(d, pos, updates[pos]),
                          updates, keys \ {pos})

RECURSIVE SetItems(_, _, _)
\* for pos, piece in updates.items(): d[pos] = piece
SetItems(d, updates, keys) ==
    IF keys = {} THEN d
    ELSE LET pos == CHOOSE k \in keys : TRUE
         IN  SetItems(IF pos \in DOMAIN d THEN [d EXCEPT ![pos] = updates[pos]]
                      ELSE DictSet(d, pos, updates[pos]),
                      updates, keys \ {pos})

\* A plausible fault: only the squares that receive a piece are written.
update_from_move_SkipEmpty(board, move) ==
    [board EXCEPT !.data =
        SetItems(board.data, move.updates,
                 {pos \in DOMAIN move.updates : move.updates[pos] # Empty})]

update_from_move(board, move) ==
    [board EXCEPT !.data = SetItems(board.data, move.updates, DOMAIN move.updates)]

\* A plausible fault: the path of the move is not looked at.
Rejected_NoObstruction(board, move) ==
    \/ ~ in_bounds(move.to)
    \/ At(board, move.frm).color # board.color_move
    \/ At(board, move.to).color = board.color_move

\* The first half of final_checks: the four rejection criteria.
Rejected(board, move) ==
    \/ ~ in_bounds(move.to)
    \/ At(board, move.frm).color # board.color_move
    \/ At(board, move.to).color = board.color_move
    \/ obstruction(board, move.frm, move.to)

\* A plausible fault: the simulation on the copy is left out.
final_checks_NoSimulation(board, move) == ~ Rejected(board, move)

final_checks(board, move) ==
    /\ ~ Rejected(board, move)
    /\ \E end_game \in {update_from_move(board, move)} : ~ checked(end_game)

\* final_checks ends in StopIteration when the simulated board has no king of
\* color_move: every square in kings, the king squares of board, is overwritten and
\* no update puts a king down.
final_checks_raises(board, kings, move) ==
    /\ kings \subseteq DOMAIN move.updates
    /\ \A pos \in DOMAIN move.updates : move.updates[pos] # King(board.color_move)
    /\ ~ Rejected(board, move)

\* Objects by reference: a heap is a sequence of Board objects, a reference is an
\* index into it.
\* A plausible fault: the simulation is handed the board itself.
deepcopy_Alias(heap, ref) == [heap |-> heap, ref |-> ref]

\* deepcopy(board): a new object with the contents of the one referred to
deepcopy(heap, ref) == [heap |-> Append(heap, heap[ref]), ref |-> Len(heap) + 1]

\* The objects as final_checks(board, move) leaves them, board being the object
\* at ref: end_game.update_from_move(move) assigns into the object end_game
\* refers to.
final_checks_heap(heap, ref, move) ==
    IF Rejected(heap[ref], move) THEN heap
    ELSE CHOOSE after \in
            {[end_game.heap EXCEPT
                 ![end_game.ref] = update_from_move(end_game.heap[end_game.ref], move)] :
                    end_game \in {deepcopy(heap, ref)}} : TRUE

\* enpassant_target == (frm_row, to_col): a str compared with a tuple is never equal.
StrEqTuple(s, t) == FALSE

\* A plausible fault: only the forward step promotes, a capture onto the far rank
\* keeps the pawn.
Pawn_possible_moves_CaptureKeepsPawn(self, board, frm) ==
    LET frm_row == pos_tup(frm)[1]
        color == self.color
        enemy_br == back_rank(other(color))
        captures ==
            UNION {
                LET to == add_pos(frm, <<dir(color), side>>)
                IN  IF in_bounds(to) /\ At(board, to).color = other(color)
                    THEN {Move(self, frm, to, None, None, NO_FLAG, FALSE)}
                    ELSE {}
                : side \in {1, -1}}
        front_long == add_pos(frm, <<2 * dir(color), 0>>)
        long ==
            IF frm_row = pawn_rank(color) /\ ~ Truthy(At(board, front_long))
            THEN {Move(self, frm, front_long, None, board.enpassant_target, NO_FLAG, FALSE)}
            ELSE {}
        front_short == add_pos(frm, <<dir(color), 0>>)
        short ==
            IF ~ Truthy(At(board, front_short))
            THEN {Move(self, frm, front_short, None, None, NO_FLAG,
                       pos_tup(front_short)[1] = enemy_br)}
            ELSE {}
    IN  captures \cup long \cup short

Pawn_possible_moves(self, board, frm) ==
    LET frm_row == pos_tup(frm)[1]
        color == self.color
        enemy_br == back_rank(other(color))
        captures ==
            UNION {
                LET to == add_pos(frm, <<dir(color), side>>)
                    to_row == pos_tup(to)[1]
                    to_col == pos_tup(to)[2]
                IN  (IF /\ board.enpassant_target # None
                        /\ StrEqTuple(board.enpassant_target, <<frm_row, to_col>>)
                     THEN {Move(self, frm, to, board.enpassant_target, None, NO_FLAG, FALSE)}
                     ELSE {})
                    \cup
                    (IF in_bounds(to) /\ At(board, to).color = other(color)
                     THEN {Move(self, frm, to, None, None, NO_FLAG, to_row = enemy_br)}
                     ELSE {})
                : side \in {1, -1}}
        front_long == add_pos(frm, <<2 * dir(color), 0>>)
        long ==
            IF frm_row = pawn_rank(color) /\ ~ Truthy(At(board, front_long))
            THEN {Move(self, frm, front_long, None, board.enpassant_target, NO_FLAG, FALSE)}
            ELSE {}
        front_short == add_pos(frm, <<dir(color), 0>>)
        short ==
            IF ~ Truthy(At(board, front_short))
            THEN {Move(self, frm, front_short, None, None, NO_FLAG,
                       pos_tup(front_short)[1] = enemy_br)}
            ELSE {}
    IN  captures \cup long \cup short

\* board[front_short] is a KeyError for a pawn standing on its last row.
Pawn_moves_raises(self, board, frm) ==
    At(board, add_pos(frm, <<dir(self.color), 0>>)) = KeyError

Rook_possible_moves(self, board, frm) ==
    {Move(self, frm, to, None, None, ROOK_MOVED, FALSE) : to \in perpendicular_moves(frm, 7)}

Knight_possible_moves(self, board, frm) ==
    {Move(self, frm, to, None, None, NO_FLAG, FALSE) : to \in l_shaped_moves(frm)}

Bishop_possible_moves(self, board, frm) ==
    {Move(self, frm, to, None, None, NO_FLAG, FALSE) : to \in diagonal_moves(frm, 7)}

Queen_possible_moves(self, board, frm) ==
    {Move(self, frm, to, None, None, NO_FLAG, FALSE) :
        to \in diagonal_moves(frm, 7) \cup perpendicular_moves(frm, 7)}

King_possible_moves(self, board, frm) ==
    LET color == self.color
        br == back_rank(color)
        king_not_checked == ~ checked(board)
        king_side ==
            IF /\ board.castling_perm[<<color, KING_SIDE>>]
               /\ king_not_checked
               /\ kingcheck_safe(board, pos_str(br, 5), board.color_move)
               /\ ~ \E col \in {5, 6} : Truthy(At(board, pos_str(br, col)))
            THEN {Move(self, frm, add_pos(frm, <<0, 2>>), None, None, KING_SIDE, FALSE)}
            ELSE {}
        queen_side ==
            IF /\ board.castling_perm[<<color, QUEEN_SIDE>>]
               /\ king_not_checked
               /\ kingcheck_safe(board, pos_str(br, 3), board.color_move)
               /\ ~ \E col \in {1, 2, 3} : Truthy(At(board, pos_str(br, col)))
            THEN {Move(self, frm, add_pos(frm, <<0, -2>>), None, None, QUEEN_SIDE, FALSE)}
            ELSE {}
        normal ==
            {Move(self, frm, to, None, None, KING_MOVED, FALSE) :
                to \in diagonal_moves(frm, 1) \cup perpendicular_moves(frm, 1)}
    IN  king_side \cup queen_side \cup normal

\* The candidate list each Piece.moves builds before filtering it with final_checks.
possible_moves(piece, board, frm) ==
    CASE piece.type = "pawn" -> Pawn_possible_moves(piece, board, frm)
      [] piece.type = "rook" -> Rook_possible_moves(piece, board, frm)
      [] piece.type = "knight" -> Knight_possible_moves(piece, board, frm)
      [] piece.type = "bishop" -> Bishop_possible_moves(piece, board, frm)
      [] piece.type = "queen" -> Queen_possible_moves(piece, board, frm)
      [] piece.type = "king" -> King_possible_moves(piece, board, frm)
      [] OTHER -> {}

\* Piece.moves (dynamic dispatch on the piece's class)
moves(piece, board, frm) ==
    {move \in possible_moves(piece, board, frm) : final_checks(board, move)}

moves_raises(piece, board, kings, frm) ==
    \/ piece.type = "pawn" /\ Pawn_moves_raises(piece, board, frm)
    \/ \E move \in possible_moves(piece, board, frm) : final_checks_raises(board, kings, move)

----------------------------------------------------------------------------
\* Castling permissions

FEN_CASTLING ==
    (<<WHITE, KING_SIDE>> :> "K") @@ (<<WHITE, QUEEN_SIDE>> :> "Q") @@
    (<<BLACK, KING_SIDE>> :> "k") @@ (<<BLACK, QUEEN_SIDE>> :> "q")

\* i in fen_substring, for a one-character i
CharIn(i, fen_substring) == \E k \in 1..Len(fen_substring) : fen_substring[k] = i

\* A plausible fault: a right is read from the letter of either case.
CastlingPerm_CaseBlind(fen_substring) ==
    [color_side \in DOMAIN FEN_CASTLING |->
        \/ CharIn(FEN_CASTLING[<<WHITE, color_side[2]>>], fen_substring)
        \/ CharIn(FEN_CASTLING[<<BLACK, color_side[2]>>], fen_substring)]

CastlingPerm(fen_substring) ==
    [color_side \in DOMAIN FEN_CASTLING |-> CharIn(FEN_CASTLING[color_side], fen_substring)]

\* A plausible fault: the flags are flipped instead of cleared.
CastlingPerm_remove_Flip(perm, color, flag) ==
    IF flag = KING_MOVED
    THEN [perm EXCEPT ![<<color, QUEEN_SIDE>>] = ~ @, ![<<color, KING_SIDE>>] = ~ @]
    ELSE [perm EXCEPT ![<<color, flag>>] = ~ @]

CastlingPerm_remove(perm, color, flag) ==
    IF flag = KING_MOVED
    THEN [perm EXCEPT ![<<color, QUEEN_SIDE>>] = FALSE, ![<<color, KING_SIDE>>] = FALSE]
    ELSE [perm EXCEPT ![<<color, flag>>] = FALSE]

----------------------------------------------------------------------------
\* Board

\* recompute_all_moves ends in an exception when a call of Piece.moves does.
recompute_raises(board) ==
    LET kings == KingSquares(board, board.color_move)
    IN  \E pos \in DOMAIN board.data :
            /\ board.data[pos].color = board.color_move
            /\ moves_raises(board.data[pos], board, kings, pos)

\* all_moves_cache: position -> moves, only for positions with at least one move
recompute_all_moves(board) ==
    LET color == board.color_move
        all == [pos \in {p \in DOMAIN board.data : board.data[p].color = color} |->
                    moves(board.data[pos], board, pos)]
    IN  [board EXCEPT !.all_moves_cache = [pos \in {p \in DOMAIN all : all[p] # {}} |-> all[pos]]]

\* A plausible fault: the cache is not looked at.
checkmated_AnyCheck(board) == checked(board)

\* not self.all_moves_cache: an empty dict is falsy
checkmated(board) == DOMAIN board.all_moves_cache = {} /\ checked(board)

\* A plausible fault: the second "not" is missing.
stalemated_Checked(board) == DOMAIN board.all_moves_cache = {} /\ checked(board)

stalemated(board) == DOMAIN board.all_moves_cache = {} /\ ~ checked(board)

\* The castling_perm.remove calls of execute_move
castling_after(board, move) ==
    LET color == board.color_move
        br == back_rank(color)
        castling_flag == move.castling_flag
        p1 == IF castling_flag = QUEEN_SIDE
              THEN CastlingPerm_remove(board.castling_perm, color, castling_flag)
              ELSE board.castling_perm
        p2 == IF castling_flag = KING_SIDE
              THEN CastlingPerm_remove(p1, color, castling_flag)
              ELSE p1
        p3 == IF castling_flag = KING_MOVED
              THEN CastlingPerm_remove(p2, color, KING_MOVED)
              ELSE p2
    IN  IF castling_flag = ROOK_MOVED
        THEN CastlingPerm_remove(p3, color,
                IF move.frm = pos_str(br, 0) THEN QUEEN_SIDE ELSE KING_SIDE)
        ELSE p3

\* A plausible fault: execute_move looks the move up and leaves the board alone
\* when the cache does not hold it.
execute_move_Validating(board, move) ==
    IF ~ (move.frm \in DOMAIN board.all_moves_cache
          /\ move \in board.all_moves_cache[move.frm])
    THEN board
    ELSE LET b2 == [update_from_move(board, move) EXCEPT
                       !.castling_perm = castling_after(board, move),
                       !.enpassant_target = move.enpassant_target,
                       !.color_move = other(board.color_move)]
         IN  IF recompute_raises(b2) THEN [b2 EXCEPT !.raised = TRUE]
             ELSE recompute_all_moves(b2)

execute_move(board, move) ==
    CHOOSE after \in
        {IF recompute_raises(b2) THEN [b2 EXCEPT !.raised = TRUE]
         ELSE recompute_all_moves(b2) :
            b2 \in {[update_from_move(board, move) EXCEPT
                        !.castling_perm = castling_after(board, move),
                        !.enpassant_target = move.enpassant_target,
                        !.color_move = other(board.color_move)]}} : TRUE

----------------------------------------------------------------------------
\* Board construction

RECURSIVE Replace(_, _, _)
\* str.replace for a one-character pattern
Replace(s, ch, rep) ==
    IF s = << >> THEN << >>
    ELSE (IF Head(s) = ch THEN rep ELSE <<Head(s)>>) \o Replace(Tail(s), ch, rep)

RECURSIVE Split(_, _)
\* str.split(sep) for a one-character separator
Split(s, sep) ==
    IF ~ \E k \in 1..Len(s) : s[k] = sep THEN <<s>>
    ELSE LET k == CHOOSE i \in 1..Len(s) : s[i] = sep /\ \A j \in 1..(i - 1) : s[j] # sep
         IN  <<SubSeq(s, 1, k - 1)>> \o Split(SubSeq(s, k + 1, Len(s)), sep)

Digits == <<"1", "2", "3", "4", "5", "6", "7", "8">>

Files == <<"a", "b", "c", "d", "e", "f", "g", "h">>

\* int(ch) for ch in "12345678", "abcdefgh".index(ch)
IndexIn(ch, seq) == CHOOSE k \in 1..Len(seq) : seq[k] = ch

Decimal == <<"0", "1", "2", "3", "4", "5", "6", "7", "8", "9">>

\* int(ch) for a one-character string
int(ch) == IndexIn(ch, Decimal) - 1

Spaces(n) == [k \in 1..n |-> " "]

RECURSIVE ExpandDigits(_, _)
\* for i in "12345678": board_config = board_config.replace(i, " " * int(i))
ExpandDigits(board_config, i) ==
    IF i > Len(Digits) THEN board_config
    ELSE ExpandDigits(Replace(board_config, Digits[i], Spaces(i)), i + 1)

\* {pos_str(*divmod(i, 8)): FEN_MAP[p] for i, p in enumerate(board_config)}
Enumerated(board_config) ==
    IF Len(board_config) = 64
    THEN [pos \in 0..63 |-> FEN_MAP[board_config[KeyIndex(pos) + 1]]]
    ELSE [pos \in {pos_str(i \div 8, i % 8) : i \in 0..(Len(board_config) - 1)} |->
            FEN_MAP[board_config[KeyIndex(pos) + 1]]]

NewBoard ==
    [data |-> << >>, color_move |-> NONE, castling_perm |-> << >>,
     enpassant_target |-> None, all_moves_cache |-> << >>, raised |-> FALSE]

\* The assignments of set_fen before recompute_all_moves, from the fields of the
\* string and the placement with its digits expanded
Assigned(fields, board_config) ==
    [NewBoard EXCEPT
        !.color_move = IF fields[2] = <<"w">> THEN WHITE ELSE BLACK,
        !.castling_perm = CastlingPerm(fields[3]),
        !.enpassant_target =
            IF fields[4] = <<"-">> THEN None
            ELSE pos_str(8 - int(fields[4][2]), IndexIn(fields[4][1], Files) - 1),
        !.data = Enumerated(board_config)]

\* The exceptions of set_fen: too few fields to unpack (ValueError), an en passant
\* field that is not "-", a file letter and a digit (ValueError), a placement
\* character that is no key of FEN_MAP (KeyError), an exception of
\* recompute_all_moves. Lookups of squares missing from a placement shorter than 64
\* are not followed.
set_fen_raises(fen) ==
    \E fields \in {Split(Replace(fen, "/", << >>), " ")} :
        \/ Len(fields) < 4
        \/ /\ fields[4] # <<"-">>
           /\ \/ Len(fields[4]) # 2
              \/ ~ CharIn(fields[4][2], Decimal)
              \/ ~ CharIn(fields[4][1], Files)
        \/ \E board_config \in {ExpandDigits(fields[1], 1)} :
              \/ \E k \in 1..Len(board_config) : board_config[k] \notin DOMAIN FEN_MAP
              \/ \E self \in {Assigned(fields, board_config)} : recompute_raises(self)

\* Each local variable is bound once, to its value.
set_fen(fen) ==
    CHOOSE board \in
        UNION {UNION {{recompute_all_moves(self) : self \in {Assigned(fields, board_config)}} :
                        board_config \in {ExpandDigits(fields[1], 1)}} :
                  fields \in {Split(Replace(fen, "/", << >>), " ")}} : TRUE

\* Setup.START
START ==
    <<"r", "n", "b", "q", "k", "b", "n", "r", "/", "p", "p", "p", "p", "p", "p", "p", "p", "/",
      "8", "/", "8", "/", "8", "/", "8", "/", "P", "P", "P", "P", "P", "P", "P", "P", "/", "R",
      "N", "B", "Q", "K", "B", "N", "R", " ", "w", " ", "K", "Q", "k", "q", " ", "-", " ", "0",
      " ", "1">>

\* A white pawn on e5 beside the black pawn of d7, Black to move.
FEN_PAWNS ==
    <<"4", "k", "3", "/", "3", "p", "4", "/", "8", "/", "4", "P", "3", "/", "8", "/", "8", "/",
      "8", "/", "4", "K", "3", " ", "b", " ", "-", " ", "-", " ", "0", " ", "1">>

\* King and queen against the cornered king, White to move.
FEN_QUEEN ==
    <<"7", "k", "/", "8", "/", "6", "K", "1", "/", "8", "/", "8", "/", "8", "/", "5", "Q", "2",
      "/", "8", " ", "w", " ", "-", " ", "-", " ", "0", " ", "1">>

\* Rooks and kings that can still castle; the white a-rook has left its corner.
FEN_ROOKS ==
    <<"r", "3", "k", "3", "/", "p", "7", "/", "8", "/", "8", "/", "8", "/", "8", "/", "R", "6",
      "P", "/", "4", "K", "2", "R", " ", "w", " ", "K", "q", " ", "-", " ", "0", " ", "1">>

\* The FEN strings boards are constructed from.
FENS == {START, FEN_PAWNS, FEN_QUEEN, FEN_ROOKS}

\* Setup.START with f1 and g1 emptied.
\* rnbqkbnr/pppppppp/8/8/8/8/PPPPPPPP/RNBQK2R w KQkq - 0 1
FEN_CASTLE ==
    <<"r", "n", "b", "q", "k", "b", "n", "r", "/", "p", "p", "p", "p", "p", "p", "p",
      "p", "/", "8", "/", "8", "/", "8", "/", "8", "/", "P", "P", "P", "P", "P", "P",
      "P", "P", "/", "R", "N", "B", "Q", "K", "2", "R", " ", "w", " ", "K", "Q", "k",
      "q", " ", "-", " ", "0", " ", "1">>

\* The black king beside the white h-rook, which it can take; White has the
\* king-side right.
\* 8/8/8/8/8/8/6k1/4K2R b K - 0 1
FEN_CORNER ==
    <<"8", "/", "8", "/", "8", "/", "8", "/", "8", "/", "8", "/", "6", "k", "1", "/",
      "4", "K", "2", "R", " ", "b", " ", "K", " ", "-", " ", "0", " ", "1">>

\* FEN_CORNER with a black pawn on a7.
\* 8/p7/8/8/8/8/6k1/4K2R b K - 0 1
FEN_CORNER_PAWN ==
    <<"8", "/", "p", "7", "/", "8", "/", "8", "/", "8", "/", "8", "/", "6", "k", "1",
      "/", "4", "K", "2", "R", " ", "b", " ", "K", " ", "-", " ", "0", " ", "1">>

\* A white pawn on e5 beside a black pawn on d5, which the en passant field names.
\* 4k3/8/8/3pP3/8/8/8/4K3 w - d5 0 1
FEN_EN_PASSANT ==
    <<"4", "k", "3", "/", "8", "/", "8", "/", "3", "p", "P", "3", "/", "8", "/", "8",
      "/", "8", "/", "4", "K", "3", " ", "w", " ", "-", " ", "d", "5", " ", "0", " ",
      "1">>

\* A white pawn on e2 that can take on d3 and f3 and step to e3 and e4.
\* 4k3/8/8/8/8/3p1p2/4P3/4K3 w - - 0 1
FEN_FORK ==
    <<"4", "k", "3", "/", "8", "/", "8", "/", "8", "/", "8", "/", "3", "p", "1", "p",
      "2", "/", "4", "P", "3", "/", "4", "K", "3", " ", "w", " ", "-", " ", "-", " ",
      "0", " ", "1">>

\* Black pawns on their starting rank: a7 with a knight right in front, h7 with a knight two squares in front.
\* 4k3/p6p/N7/7N/8/8/8/4K3 b - - 0 1
FEN_BLOCKED ==
    <<"4", "k", "3", "/", "p", "6", "p", "/", "N", "7", "/", "7", "N", "/", "8", "/",
      "8", "/", "8", "/", "4", "K", "3", " ", "b", " ", "-", " ", "-", " ", "0", " ",
      "1">>

\* A bishop with one open diagonal and a rook shut in by its own king and pawn.
\* 6kr/7p/8/8/8/8/P7/KB6 w - - 0 1
FEN_LINES ==
    <<"6", "k", "r", "/", "7", "p", "/", "8", "/", "8", "/", "8", "/", "8", "/", "P",
      "7", "/", "K", "B", "6", " ", "w", " ", "-", " ", "-", " ", "0", " ", "1">>

\* FEN_LINES with Black to move.
\* 6kr/7p/8/8/8/8/P7/KB6 b - - 0 1
FEN_LINES_BLACK ==
    <<"6", "k", "r", "/", "7", "p", "/", "8", "/", "8", "/", "8", "/", "8", "/", "P",
      "7", "/", "K", "B", "6", " ", "b", " ", "-", " ", "-", " ", "0", " ", "1">>

\* A pawn of each color one step from its far rank, with a knight to capture there.
\* 1n2k3/P7/8/8/8/8/7p/4K1N1 w - - 0 1
FEN_PROMOTION ==
    <<"1", "n", "2", "k", "3", "/", "P", "7", "/", "8", "/", "8", "/", "8", "/", "8",
      "/", "7", "p", "/", "4", "K", "1", "N", "1", " ", "w", " ", "-", " ", "-", " ",
      "0", " ", "1">>

\* The position after 1.f3 e5 2.g4 Qh4.
\* rnb1kbnr/pppp1ppp/8/4p3/6Pq/5P2/PPPPP2P/RNBQKBNR w KQkq - 0 1
FEN_FOOLS_MATE ==
    <<"r", "n", "b", "1", "k", "b", "n", "r", "/", "p", "p", "p", "p", "1", "p", "p",
      "p", "/", "8", "/", "4", "p", "3", "/", "6", "P", "q", "/", "5", "P", "2", "/",
      "P", "P", "P", "P", "P", "2", "P", "/", "R", "N", "B", "Q", "K", "B", "N", "R",
      " ", "w", " ", "K", "Q", "k", "q", " ", "-", " ", "0", " ", "1">>

\* The cornered king has no move and is not attacked.
\* 7k/5Q2/6K1/8/8/8/8/8 b - - 0 1
FEN_STALEMATE ==
    <<"7", "k", "/", "5", "Q", "2", "/", "6", "K", "1", "/", "8", "/", "8", "/", "8",
      "/", "8", "/", "8", " ", "b", " ", "-", " ", "-", " ", "0", " ", "1">>

\* A rook and a bishop beside the kings.
\* b3k3/8/8/8/8/8/8/R3K3 w - - 0 1
FEN_PIECES ==
    <<"b", "3", "k", "3", "/", "8", "/", "8", "/", "8", "/", "8", "/", "8", "/", "8",
      "/", "R", "3", "K", "3", " ", "w", " ", "-", " ", "-", " ", "0", " ", "1">>

\* Two bare kings.
\* 4k3/8/8/8/8/8/8/4K3 w - - 0 1
FEN_KINGS ==
    <<"4", "k", "3", "/", "8", "/", "8", "/", "8", "/", "8", "/", "8", "/", "8", "/",
      "4", "K", "3", " ", "w", " ", "-", " ", "-", " ", "0", " ", "1">>

\* FEN_KINGS with a side-to-move field that is neither w nor b.
\* 4k3/8/8/8/8/8/8/4K3 x - - 0 1
FEN_BAD_SIDE ==
    <<"4", "k", "3", "/", "8", "/", "8", "/", "8", "/", "8", "/", "8", "/", "8", "/",
      "4", "K", "3", " ", "x", " ", "-", " ", "-", " ", "0", " ", "1">>

\* FEN_KINGS with a letter that names no piece.
\* 4k3/8/8/8/8/8/8/4X3 w - - 0 1
FEN_BAD_LETTER ==
    <<"4", "k", "3", "/", "8", "/", "8", "/", "8", "/", "8", "/", "8", "/", "8", "/",
      "4", "X", "3", " ", "w", " ", "-", " ", "-", " ", "0", " ", "1">>

\* FEN_KINGS with a last rank of nine squares.
\* 4k3/8/8/8/8/8/8/4K31 w - - 0 1
FEN_BAD_LENGTH ==
    <<"4", "k", "3", "/", "8", "/", "8", "/", "8", "/", "8", "/", "8", "/", "8", "/",
      "4", "K", "3", "1", " ", "w", " ", "-", " ", "-", " ", "0", " ", "1">>

\* FEN_KINGS cut off before its en passant field.
\* 4k3/8/8/8/8/8/8/4K3 w -
FEN_BAD_FIELDS ==
    <<"4", "k", "3", "/", "8", "/", "8", "/", "8", "/", "8", "/", "8", "/", "8", "/",
      "4", "K", "3", " ", "w", " ", "-">>

----------------------------------------------------------------------------
\* State machine

\* The live Board object
Self ==
    [data |-> data, color_move |-> color_move, castling_perm |-> castling_perm,
     enpassant_target |-> enpassant_target, all_moves_cache |-> all_moves_cache,
     raised |-> FALSE]

Becomes(board) ==
    /\ data' = board.data
    /\ color_move' = board.color_move
    /\ castling_perm' = board.castling_perm
    /\ enpassant_target' = board.enpassant_target
    /\ all_moves_cache' = board.all_moves_cache
    /\ raised' = board.raised

\* board = Board(fen) for one of the strings fens; after an exception in the
\* constructor there is no Board object.
Constructed(fens) ==
    /\ \E fen \in fens :
          \E board \in {IF set_fen_raises(fen) THEN [NewBoard EXCEPT !.raised = TRUE]
                        ELSE set_fen(fen)} :
              /\ fen_string = fen
              /\ data = board.data
              /\ color_move = board.color_move
              /\ castling_perm = board.castling_perm
              /\ enpassant_target = board.enpassant_target
              /\ all_moves_cache = board.all_moves_cache
              /\ raised = board.raised
    /\ last_move = NoMove
    /\ last_cached = TRUE
    /\ plies = 0

\* The board is used by itself: no HTTP request, no window, no board of game.py.
Direct == requests = << >> /\ root = None /\ game = None

Init == Constructed(FENS) /\ Direct

InCache(move) ==
    move.frm \in DOMAIN all_moves_cache /\ move \in all_moves_cache[move.frm]

\* board.execute_move(move) for a move taken from all_moves_cache
ExecuteCached ==
    /\ plies < MaxPlies
    /\ \E frm \in DOMAIN all_moves_cache :
          \E move \in all_moves_cache[frm] :
             /\ \E board \in {execute_move(Self, move)} : Becomes(board)
             /\ last_move' = move
    /\ last_cached' = TRUE
    /\ plies' = plies + 1
    /\ UNCHANGED <<fen_string, requests, root, game>>

\* Moves a caller can build that the cache need not hold: whatever stands on a
\* king's home square sent to e4.
UncachedInputs ==
    {Move(At(Self, frm), frm, pos_str(4, 4), None, None, NO_FLAG, FALSE) :
        frm \in {pos_str(7, 4), pos_str(0, 4)}}

\* board.execute_move(move) for a move that is not in all_moves_cache
ExecuteUncached ==
    /\ plies < MaxPlies
    /\ \E move \in UncachedInputs :
          /\ ~ InCache(move)
          /\ \E board \in {execute_move(Self, move)} : Becomes(board)
          /\ last_move' = move
    /\ last_cached' = FALSE
    /\ plies' = plies + 1
    /\ UNCHANGED <<fen_string, requests, root, game>>

Next == ExecuteCached

Spec == Init /\ [][Next]_vars

NextUnchecked == ExecuteCached \/ ExecuteUncached

SpecUnchecked == Init /\ [][NextUnchecked]_vars

\* Boards for castling
FENS_CASTLING == {FEN_CASTLE, FEN_CORNER}

InitCastling == Constructed(FENS_CASTLING) /\ Direct

SpecCastling == InitCastling /\ [][Next]_vars

\* Strings the constructor cannot read as a position
MALFORMED == {FEN_BAD_SIDE, FEN_BAD_LETTER, FEN_BAD_LENGTH, FEN_BAD_FIELDS}

\* Boards for promotion and the end of the game, and strings that are no boards
FENS_ENDINGS ==
    {FEN_PROMOTION, FEN_FOOLS_MATE, FEN_STALEMATE, FEN_QUEEN, FEN_ROOKS, FEN_KINGS}
    \cup MALFORMED

InitEndings == Constructed(FENS_ENDINGS) /\ Direct

SpecEndings == InitEndings /\ [][Next]_vars

\* Boards on which a king can take the rook of a side that may still castle
FENS_CORNER == {FEN_CORNER, FEN_CORNER_PAWN, FEN_PROMOTION}

InitCorner == Constructed(FENS_CORNER) /\ Direct

SpecCorner == InitCorner /\ [][Next]_vars

\* Boards for the four kinds of pawn move
FENS_PAWNS == {FEN_EN_PASSANT, FEN_FORK, FEN_BLOCKED}

InitPawns == Constructed(FENS_PAWNS) /\ Direct

SpecPawns == InitPawns /\ [][Next]_vars

\* Boards with few moves for a rook and a bishop
FENS_LINES == {FEN_LINES, FEN_LINES_BLACK}

InitLines == Constructed(FENS_LINES) /\ Direct

SpecLines == InitLines /\ [][Next]_vars

-----------------------------------------------------------------------------
\* base.py: the HTTP handlers on the module-level board

\* The requests in flight
Requests == {1, 2}

\* Board.get_move(frm, to): the cached move from frm to to, None without one
get_move(board, frm, to) ==
    IF frm \in DOMAIN board.all_moves_cache
          /\ \E move \in board.all_moves_cache[frm] : move.to = to
    THEN CHOOSE move \in board.all_moves_cache[frm] : move.to = to
    ELSE NoMove

\* Board.execute_move_on_board(move)
execute_move_on_board(board, move) == execute_move(board, move)

\* The <frm>_<to> of a request: the squares of a cached move, or a pair of squares
\* without one.
ChooseMoveInputs ==
    {<<move.frm, move.to>> :
        move \in UNION {all_moves_cache[frm] : frm \in DOMAIN all_moves_cache}}
    \cup {<<pos_str(4, 4), pos_str(4, 4)>>}

\* choose_move, first statement: move = board.get_move(frm, to); a request
\* without a move returns "MOVE DOES NOT EXIST".
choose_move_get(r) ==
    /\ requests[r].pc = "get_move"
    /\ \E input \in ChooseMoveInputs :
          \E move \in {get_move(Self, input[1], input[2])} :
             requests' = [requests EXCEPT ![r] =
                             IF move = NoMove THEN [pc |-> "return", move |-> NoMove]
                             ELSE [pc |-> "execute_move_on_board", move |-> move]]
    /\ UNCHANGED <<fen_string, data, color_move, castling_perm, enpassant_target,
                   all_moves_cache, raised, last_move, last_cached, plies, root, game>>

\* choose_move, second statement: board.execute_move_on_board(move), and the return
choose_move_execute(r) ==
    /\ requests[r].pc = "execute_move_on_board"
    /\ \E move \in {requests[r].move} :
          /\ \E board \in {execute_move_on_board(Self, move)} : Becomes(board)
          /\ last_move' = move
          /\ last_cached' = InCache(move)
    /\ plies' = plies + 1
    /\ requests' = [requests EXCEPT ![r] = [pc |-> "return", move |-> NoMove]]
    /\ UNCHANGED <<fen_string, root, game>>

\* board = Board() at import, and two requests on their way to choose_move
InitRequests ==
    /\ Constructed({START})
    /\ requests = [r \in Requests |-> [pc |-> "get_move", move |-> NoMove]]
    /\ root = None
    /\ game = None

NextRequests == \E r \in Requests : choose_move_get(r) \/ choose_move_execute(r)

SpecRequests == InitRequests /\ [][NextRequests]_vars

-----------------------------------------------------------------------------
\* game.py: positions are (row, col) tuples, a Board maps them to pieces

\* Color.dir
game_dir(color) == IF color = WHITE THEN -1 ELSE IF color = BLACK THEN 1 ELSE 0

\* Color.other
game_other(color) == IF color = WHITE THEN BLACK ELSE IF color = BLACK THEN WHITE ELSE NONE

\* An object of the class class_name, a subclass of Piece, made with color
game_Piece(color, class_name) == [color |-> color, class |-> class_name]

\* Empty(): its color is Color.NONE
game_Empty == game_Piece(NONE, "Empty")

\* Empty.__bool__ is False, every other piece is true
game_bool(piece) == piece.class # "Empty"

game_FEN_MAP ==
    [p \in {"p", "n", "b", "r", "q", "k", "P", "N", "B", "R", "Q", "K", " "} |->
        CASE p = "p" -> game_Piece(BLACK, "Pawn")
          [] p = "n" -> game_Piece(BLACK, "Knight")
          [] p = "b" -> game_Piece(BLACK, "Bishop")
          [] p = "r" -> game_Piece(BLACK, "Rook")
          [] p = "q" -> game_Piece(BLACK, "Queen")
          [] p = "k" -> game_Piece(BLACK, "King")
          [] p = "P" -> game_Piece(WHITE, "Pawn")
          [] p = "N" -> game_Piece(WHITE, "Knight")
          [] p = "B" -> game_Piece(WHITE, "Bishop")
          [] p = "R" -> game_Piece(WHITE, "Rook")
          [] p = "Q" -> game_Piece(WHITE, "Queen")
          [] p = "K" -> game_Piece(WHITE, "King")
          [] OTHER -> game_Empty]

\* [p for p in pos_list if max(p) <= 7 and min(p) >= 0]
in_bounds_filter(pos_list) ==
    {p \in pos_list : Max2(p[1], p[2]) <= 7 /\ Min2(p[1], p[2]) >= 0}

diag_m(pos, n) ==
    in_bounds_filter({<<pos[1] + i * q[1], pos[2] + i * q[2]>> : i \in 1..n, q \in Quadrants})

perp_m(pos, n) ==
    in_bounds_filter({<<pos[1] + i * q[1], pos[2] + i * q[2]>> : i \in 1..n, q \in Sides})

lshapes_m(pos) ==
    in_bounds_filter({<<pos[1] + delta[1], pos[2] + delta[2]>> : delta \in LShapedDeltas})

pincer_m(pos, direction) ==
    in_bounds_filter({<<pos[1] + direction, pos[2] + 1>>, <<pos[1] + direction, pos[2] - 1>>})

no_obstruction(board, pos, move) ==
    LET X == RangeLen(pos[1], move[1])
        Y == RangeLen(pos[2], move[2])
    IN  IF Min2(X, Y) = 1 THEN TRUE
        ELSE IF X > 0 /\ Y > 0 THEN
            ~ \E i \in 1..Min2(X, Y) :
                 LET xy == <<RangeAt(pos[1], move[1], i), RangeAt(pos[2], move[2], i)>>
                 IN  xy # pos /\ game_bool(board[xy])
        ELSE IF X > 0 THEN
            ~ \E i \in 1..X :
                 LET xy == <<RangeAt(pos[1], move[1], i), pos[2]>>
                 IN  xy # pos /\ game_bool(board[xy])
        ELSE
            ~ \E i \in 1..Y :
                 LET xy == <<pos[1], RangeAt(pos[2], move[2], i)>>
                 IN  xy # pos /\ game_bool(board[xy])

\* kingcheck_safe of game.py
game_kingcheck_safe(board, pos, color) ==
    LET enemy_color == game_other(color)
        enemy_knight ==
            \E move \in lshapes_m(pos) :
                board[move].class = "Knight" /\ board[move].color = enemy_color
        enemy_rook_queen ==
            \E move \in perp_m(pos, 7) :
                /\ board[move].class \in {"Queen", "Rook"}
                /\ board[move].color = enemy_color
                /\ no_obstruction(board, pos, move)
        enemy_bishop_queen ==
            \E move \in diag_m(pos, 7) :
                /\ board[move].class \in {"Queen", "Bishop"}
                /\ board[move].color = enemy_color
                /\ no_obstruction(board, pos, move)
        enemy_king ==
            \E move \in perp_m(pos, 1) \cup diag_m(pos, 1) :
                board[move].class = "King" /\ board[move].color = enemy_color
        enemy_pawn ==
            \E move \in pincer_m(pos, game_dir(color)) :
                board[move].class = "King" /\ board[move].color = enemy_color
    IN  ~ (enemy_knight \/ enemy_rook_queen \/ enemy_bishop_queen \/ enemy_king \/ enemy_pawn)

\* EMPTY_BOARD as the module defines it
EMPTY_BOARD == [pos \in (0..7) \X (0..7) |-> game_Empty]

\* Board.from_fen(fen_string): cls() takes the dictionary squares for its data and
\* the pieces of the placement are put on it.
from_fen(squares, fen) ==
    LET board_configuration == ExpandDigits(Split(Replace(fen, "/", << >>), " ")[1], 1)
        named == {i \in 0..(Len(board_configuration) - 1) : board_configuration[i + 1] # " "}
    IN  [pos \in DOMAIN squares \cup {<<i \div 8, i % 8>> : i \in named} |->
            IF pos[1] * 8 + pos[2] \in named
            THEN game_FEN_MAP[board_configuration[pos[1] * 8 + pos[2] + 1]]
            ELSE squares[pos]]

\* next() of an exhausted generator, where a position is expected
game_StopIteration == << >>

\* Board.king_pos(color): the first king of the color in the order of the
\* dictionary, StopIteration without one
king_pos(board, color) ==
    LET kings == {pos \in DOMAIN board :
                     board[pos].color = color /\ board[pos].class = "King"}
    IN  IF kings = {} THEN game_StopIteration
        ELSE CHOOSE pos \in kings :
                \A q \in kings : pos[1] * 8 + pos[2] <= q[1] * 8 + q[2]

\* Board.checked(color)
game_checked(board, color) == ~ game_kingcheck_safe(board, king_pos(board, color), color)

\* str(bool)
str(b) == IF b THEN "True" ELSE "False"

\* A black pawn on d2, the only piece that attacks the white king on e1.
\* 4k3/8/8/8/8/8/3p4/4K3 w - - 0 1
FEN_PAWN_CHECK ==
    <<"4", "k", "3", "/", "8", "/", "8", "/", "8", "/", "8", "/", "8", "/", "3", "p",
      "4", "/", "4", "K", "3", " ", "w", " ", "-", " ", "-", " ", "0", " ", "1">>

\* A white pawn on d7, the only piece that attacks the black king on e8.
\* 4k3/3P4/8/8/8/8/8/4K3 b - - 0 1
FEN_PAWN_CHECK_BLACK ==
    <<"4", "k", "3", "/", "3", "P", "4", "/", "8", "/", "8", "/", "8", "/", "8", "/",
      "8", "/", "4", "K", "3", " ", "b", " ", "-", " ", "-", " ", "0", " ", "1">>

\* A black rook on a1 attacks the white king on e1 along the rank.
\* 4k3/8/8/8/8/8/8/r3K2R w - - 0 1
FEN_ROOK_CHECK ==
    <<"4", "k", "3", "/", "8", "/", "8", "/", "8", "/", "8", "/", "8", "/", "8", "/",
      "r", "3", "K", "2", "R", " ", "w", " ", "-", " ", "-", " ", "0", " ", "1">>

GAME_FENS == {FEN_PAWN_CHECK, FEN_PAWN_CHECK_BLACK, FEN_ROOK_CHECK}

\* No Board of chess.py has been constructed.
NoBoard ==
    /\ fen_string = << >>
    /\ data = << >>
    /\ color_move = NONE
    /\ castling_perm = << >>
    /\ enpassant_target = None
    /\ all_moves_cache = << >>
    /\ raised = FALSE
    /\ last_move = NoMove
    /\ last_cached = TRUE
    /\ plies = 0

\* The module is imported and one board is made: board = Board.from_fen(fen)
InitGame ==
    /\ \E fen \in GAME_FENS :
          game = [data |-> from_fen(EMPTY_BOARD, fen),
                  call |-> [name |-> "from_fen", pos |-> << >>, color |-> NONE],
                  result |-> "None"]
    /\ NoBoard
    /\ requests = << >>
    /\ root = None

\* kingcheck_safe(board, pos, color) for a square of the board and a color
call_kingcheck_safe ==
    /\ \E pos \in DOMAIN game.data : \E color \in {WHITE, BLACK} :
          game' = [game EXCEPT
                      !.call = [name |-> "kingcheck_safe", pos |-> pos, color |-> color],
                      !.result = str(game_kingcheck_safe(game.data, pos, color))]
    /\ UNCHANGED <<fen_string, data, color_move, castling_perm, enpassant_target,
                   all_moves_cache, raised, last_move, last_cached, plies, requests, root>>

\* board.checked(color)
call_checked ==
    /\ \E color \in {WHITE, BLACK} :
          game' = [game EXCEPT
                      !.call = [name |-> "checked", pos |-> << >>, color |-> color],
                      !.result = IF king_pos(game.data, color) = game_StopIteration
                                 THEN "StopIteration"
                                 ELSE str(game_checked(game.data, color))]
    /\ UNCHANGED <<fen_string, data, color_move, castling_perm, enpassant_target,
                   all_moves_cache, raised, last_move, last_cached, plies, requests, root>>

NextGame == call_kingcheck_safe \/ call_checked

SpecGame == InitGame /\ [][NextGame]_vars

-----------------------------------------------------------------------------
\* board.py and root.py: the tkinter iteration.  Positions are (row, col) tuples.

\* None where a Position is expected (Board.enpassant_target, Root.selected_pos)
NoPosition == << >>

\* Piece(color, type) of this iteration: a value with the fields color and type
board_Piece(color, type) == [color |-> color, type |-> type]

\* Piece(): PieceColor.NONE and PieceType.EMPTY
board_Empty == board_Piece(NONE, "empty")

\* Piece.__bool__
board_bool(piece) == piece.type # "empty"

\* Piece.dir
board_Piece_dir(piece) == IF piece.color = WHITE THEN -1 ELSE 1

\* FEN_MAP of this iteration: the letter of a piece to its (color, type)
board_FEN_MAP ==
    [p \in {"p", "n", "b", "r", "q", "k", "P", "N", "B", "R", "Q", "K"} |->
        CASE p = "p" -> board_Piece(BLACK, "pawn")
          [] p = "n" -> board_Piece(BLACK, "knight")
          [] p = "b" -> board_Piece(BLACK, "bishop")
          [] p = "r" -> board_Piece(BLACK, "rook")
          [] p = "q" -> board_Piece(BLACK, "queen")
          [] p = "k" -> board_Piece(BLACK, "king")
          [] p = "P" -> board_Piece(WHITE, "pawn")
          [] p = "N" -> board_Piece(WHITE, "knight")
          [] p = "B" -> board_Piece(WHITE, "bishop")
          [] p = "R" -> board_Piece(WHITE, "rook")
          [] p = "Q" -> board_Piece(WHITE, "queen")
          [] p = "K" -> board_Piece(WHITE, "king")]

\* Setup.START of this iteration: the starting position
board_START == START

empty_board == [pos \in (0..7) \X (0..7) |-> board_Empty]

castling_flags_initial == [color \in {WHITE, BLACK} |-> <<TRUE, TRUE>>]

\* Board(fen): the dataclass defaults, then __post_init__
Board(fen) ==
    LET fields == Split(Replace(fen, "/", << >>), " ")
        config == ExpandDigits(fields[1], 1)
    IN  [color_turn |-> IF fields[2] = <<"w">> THEN WHITE ELSE BLACK,
         enpassant_target |-> NoPosition,
         pieces |-> [pos \in DOMAIN empty_board |->
                        IF /\ pos[1] * 8 + pos[2] < Len(config)
                           /\ config[pos[1] * 8 + pos[2] + 1] # " "
                        THEN board_FEN_MAP[config[pos[1] * 8 + pos[2] + 1]]
                        ELSE empty_board[pos]],
         move_counter |-> 0,
         castling_flags |-> castling_flags_initial]

\* Board.dir
Board_dir(board) == IF board.color_turn = WHITE THEN -1 ELSE 1

\* Board.enemy_color
Board_enemy_color(board) == IF board.color_turn = BLACK THEN WHITE ELSE BLACK

\* Board.toggle_color_turn
toggle_color_turn(board) == [board EXCEPT !.color_turn = Board_enemy_color(board)]

\* Whether next() in Board.king_pos raises StopIteration
Board_king_missing(board) ==
    ~ \E pos \in DOMAIN board.pieces :
         board.pieces[pos] = board_Piece(board.color_turn, "king")

\* Board.king_pos: the first king of the side to move in the order of the dictionary
Board_king_pos(board) ==
    CHOOSE pos \in DOMAIN board.pieces :
        /\ board.pieces[pos] = board_Piece(board.color_turn, "king")
        /\ \A q \in DOMAIN board.pieces :
              board.pieces[q] = board_Piece(board.color_turn, "king")
                  => pos[1] * 8 + pos[2] <= q[1] * 8 + q[2]

\* Board.__delitem__
Board_delitem(board, pos) ==
    IF pos = NoPosition THEN board
    ELSE [board EXCEPT !.pieces[pos] = board_Empty]

\* Move(to, flag)
board_Move(to, flag) == [to |-> to, flag |-> flag]

Move_diag(pos, n) ==
    {board_Move(<<pos[1] + i * q[1], pos[2] + i * q[2]>>, "NONE") : i \in 1..n, q \in Quadrants}

Move_perp(pos, n) ==
    {board_Move(<<pos[1] + i * q[1], pos[2] + i * q[2]>>, "NONE") : i \in 1..n, q \in Sides}

Move_lshapes(pos) ==
    {board_Move(<<pos[1] + delta[1], pos[2] + delta[2]>>, "NONE") : delta \in LShapedDeltas}

Move_castle_short(pos) == {board_Move(<<pos[1], pos[2] + 2>>, "CASTLE_SHORT")}

Move_castle_long(pos) == {board_Move(<<pos[1], pos[2] - 2>>, "CASTLE_LONG")}

Move_pincer(pos, direction) ==
    {board_Move(<<pos[1] + direction, pos[2] + 1>>, "NONE"),
     board_Move(<<pos[1] + direction, pos[2] - 1>>, "NONE")}

Move_enpassant(pos, direction) ==
    {board_Move(<<pos[1] + direction, pos[2] + 1>>, "ENPASSANT"),
     board_Move(<<pos[1] + direction, pos[2] - 1>>, "ENPASSANT")}

Move_front_short(pos, direction) == {board_Move(<<pos[1] + direction, pos[2]>>, "NONE")}

Move_front_long(pos, direction) ==
    {board_Move(<<pos[1] + 2 * direction, pos[2]>>, "ENPASSANT_TRGT")}

\* Checks.to_pos_in_grid
to_pos_in_grid(move) ==
    Max2(move.to[1], move.to[2]) <= 7 /\ Min2(move.to[1], move.to[2]) >= 0

\* Checks.is_color_turn
is_color_turn(board, pos) == board.color_turn = board.pieces[pos].color

\* Checks.to_empty_or_enemy
to_empty_or_enemy(board, pos, move) ==
    board.pieces[move.to].color # board.color_turn \/ board.pieces[move.to].color = NONE

\* Checks.no_obstruction
Checks_no_obstruction(board, pos, move) ==
    LET X == RangeLen(pos[1], move.to[1])
        Y == RangeLen(pos[2], move.to[2])
    IN  IF Min2(X, Y) = 1 THEN TRUE
        ELSE IF X > 0 /\ Y > 0 THEN
            ~ \E i \in 1..Min2(X, Y) :
                 LET xy == <<RangeAt(pos[1], move.to[1], i), RangeAt(pos[2], move.to[2], i)>>
                 IN  xy # pos /\ board_bool(board.pieces[xy])
        ELSE IF X > 0 THEN
            ~ \E i \in 1..X :
                 LET xy == <<RangeAt(pos[1], move.to[1], i), pos[2]>>
                 IN  xy # pos /\ board_bool(board.pieces[xy])
        ELSE
            ~ \E i \in 1..Y :
                 LET xy == <<pos[1], RangeAt(pos[2], move.to[2], i)>>
                 IN  xy # pos /\ board_bool(board.pieces[xy])

\* KingCheck.safe
KingCheck_safe(board, pos, color) ==
    LET enemy_color == IF color = BLACK THEN WHITE ELSE BLACK
        direction == IF color = WHITE THEN -1 ELSE 1
        enemy_knight ==
            \E move \in Move_lshapes(pos) :
                /\ to_pos_in_grid(move)
                /\ board.pieces[move.to] = board_Piece(enemy_color, "knight")
        enemy_rook_queen ==
            \E move \in Move_perp(pos, 7) :
                /\ to_pos_in_grid(move)
                /\ board.pieces[move.to] \in
                      {board_Piece(enemy_color, "rook"), board_Piece(enemy_color, "queen")}
                /\ Checks_no_obstruction(board, pos, move)
        enemy_bishop_queen ==
            \E move \in Move_diag(pos, 7) :
                /\ to_pos_in_grid(move)
                /\ board.pieces[move.to] \in
                      {board_Piece(enemy_color, "bishop"), board_Piece(enemy_color, "queen")}
                /\ Checks_no_obstruction(board, pos, move)
        enemy_king ==
            \E move \in Move_perp(pos, 1) \cup Move_diag(pos, 1) :
                /\ to_pos_in_grid(move)
                /\ board.pieces[move.to] = board_Piece(enemy_color, "king")
        enemy_pawn ==
            \E move \in Move_pincer(pos, direction) :
                /\ to_pos_in_grid(move)
                /\ board.pieces[move.to] = board_Piece(enemy_color, "pawn")
    IN  ~ (enemy_knight \/ enemy_rook_queen \/ enemy_bishop_queen \/ enemy_king \/ enemy_pawn)

\* KingCheck.castle_long_valid
castle_long_valid(board) ==
    LET row == IF board.color_turn = WHITE THEN 7 ELSE 0
        pos_pass_long == KingCheck_safe(board, <<row, 3>>, board.color_turn)
        clear_lane ==
            ~ \E btwn_pos \in {<<row, 1>>, <<row, 2>>, <<row, 3>>} :
                 board_bool(board.pieces[btwn_pos])
        king_not_checked == KingCheck_safe(board, <<row, 4>>, board.color_turn)
        priviledge == board.castling_flags[board.color_turn][1]
    IN  pos_pass_long /\ clear_lane /\ king_not_checked /\ priviledge

\* KingCheck.castle_short_valid
castle_short_valid(board) ==
    LET row == IF board.color_turn = WHITE THEN 7 ELSE 0
        pos_pass_short == KingCheck_safe(board, <<row, 5>>, board.color_turn)
        clear_lane ==
            ~ \E btwn_pos \in {<<row, 5>>, <<row, 6>>} :
                 board_bool(board.pieces[btwn_pos])
        king_not_checked == KingCheck_safe(board, <<row, 4>>, board.color_turn)
        priviledge == board.castling_flags[board.color_turn][2]
    IN  pos_pass_short /\ clear_lane /\ king_not_checked /\ priviledge

\* PawnCheck.enpassant_valid
enpassant_valid(board, pos, move) == board.enpassant_target = <<pos[1], move.to[2]>>

\* PawnCheck.pincer_valid
pincer_valid(board, pos, move) ==
    IF ~ board_bool(board.pieces[move.to]) THEN FALSE
    ELSE board.pieces[move.to].color # board.pieces[pos].color

\* PawnCheck.front_long_valid
front_long_valid(board, pos, move) ==
    LET starting_rank == pos[1] = (IF board.color_turn = WHITE THEN 6 ELSE 1)
        to_is_empty == ~ board_bool(board.pieces[move.to])
    IN  starting_rank /\ to_is_empty

\* PawnCheck.front_short_valid
front_short_valid(board, pos, move) == board.pieces[move.to].type = "empty"

\* Checks.king_safe_at_end: the move is made on a deep copy of the board
king_safe_at_end(board, pos, move) ==
    LET moved == [board EXCEPT !.pieces[move.to] = board.pieces[pos],
                               !.pieces[pos] = board_Empty]
        end_board == IF move.flag = "ENPASSANT"
                     THEN Board_delitem(moved, moved.enpassant_target)
                     ELSE moved
    IN  KingCheck_safe(end_board, Board_king_pos(end_board), board.color_turn)

\* Checks.final
Checks_final(board, pos, move) ==
    /\ to_pos_in_grid(move)
    /\ is_color_turn(board, pos)
    /\ to_empty_or_enemy(board, pos, move)
    /\ Checks_no_obstruction(board, pos, move)
    /\ king_safe_at_end(board, pos, move)

get_moves_empty == {}

get_moves_pawn(board, pos) ==
    LET direction == board_Piece_dir(board.pieces[pos])
        enpassant == {move \in Move_enpassant(pos, direction) :
                         Checks_final(board, pos, move) /\ enpassant_valid(board, pos, move)}
        pincer == {move \in Move_pincer(pos, direction) :
                      Checks_final(board, pos, move) /\ pincer_valid(board, pos, move)}
        front_long == {move \in Move_front_long(pos, direction) :
                          Checks_final(board, pos, move) /\ front_long_valid(board, pos, move)}
        front_short == {move \in Move_front_short(pos, direction) :
                           Checks_final(board, pos, move) /\ front_short_valid(board, pos, move)}
    IN  enpassant \cup pincer \cup front_long \cup front_short

get_moves_rook(board, pos) ==
    {board_Move(move.to, "LOSE_ROOK_PRIV") :
        move \in {m \in Move_perp(pos, 7) : Checks_final(board, pos, m)}}

get_moves_knight(board, pos) == {move \in Move_lshapes(pos) : Checks_final(board, pos, move)}

get_moves_bishop(board, pos) == {move \in Move_diag(pos, 7) : Checks_final(board, pos, move)}

get_moves_queen(board, pos) ==
    {move \in Move_diag(pos, 7) \cup Move_perp(pos, 7) : Checks_final(board, pos, move)}

get_moves_king(board, pos) ==
    LET castle_short == IF castle_short_valid(board) THEN Move_castle_short(pos) ELSE {}
        castle_long == IF castle_long_valid(board) THEN Move_castle_long(pos) ELSE {}
        normal_moves == {board_Move(move.to, "LOSE_KING_PRIV") :
                            move \in Move_diag(pos, 1) \cup Move_perp(pos, 1)}
    IN  {move \in normal_moves \cup castle_long \cup castle_short :
            Checks_final(board, pos, move)}

MOVE_CALCULATORS(type, board, pos) ==
    CASE type = "empty" -> get_moves_empty
      [] type = "rook" -> get_moves_rook(board, pos)
      [] type = "bishop" -> get_moves_bishop(board, pos)
      [] type = "knight" -> get_moves_knight(board, pos)
      [] type = "queen" -> get_moves_queen(board, pos)
      [] type = "king" -> get_moves_king(board, pos)
      [] type = "pawn" -> get_moves_pawn(board, pos)

\* Board.get_all_possible_moves: the squares that have a move, with their moves
get_all_possible_moves(board) ==
    CHOOSE table \in
        {[pos \in {p \in DOMAIN all_moves : all_moves[p] # {}} |-> all_moves[pos]] :
            all_moves \in {[pos \in DOMAIN board.pieces |->
                              MOVE_CALCULATORS(board.pieces[pos].type, board, pos)]}} : TRUE

\* single_move(frm, to) inside Root.move_piece
single_move(board, frm, to) ==
    [board EXCEPT !.pieces[to] = board.pieces[frm], !.pieces[frm] = board_Empty]

\* Root.move_piece up to toggle_color_turn(): the board it leaves
move_piece(board, frm, to, flag) ==
    LET row == IF board.color_turn = WHITE THEN 7 ELSE 0
        flagged ==
            CASE flag = "CASTLE_LONG" ->
                    [single_move(board, <<row, 0>>, <<row, 3>>)
                        EXCEPT !.castling_flags[board.color_turn] = <<FALSE, FALSE>>]
              [] flag = "CASTLE_SHORT" ->
                    [single_move(board, <<row, 7>>, <<row, 5>>)
                        EXCEPT !.castling_flags[board.color_turn] = <<FALSE, FALSE>>]
              [] flag = "LOSE_KING_PRIV" ->
                    [board EXCEPT !.castling_flags[board.color_turn] = <<FALSE, FALSE>>]
              [] flag = "LOSE_ROOK_PRIV" ->
                    [board EXCEPT
                        !.castling_flags[board.color_turn] =
                            <<IF frm = <<row, 0>> THEN FALSE ELSE @[1],
                              IF frm = <<row, 7>> THEN FALSE ELSE @[2]>>]
              [] flag = "ENPASSANT" -> Board_delitem(board, board.enpassant_target)
              [] OTHER -> board
        targeted == [flagged EXCEPT
                        !.enpassant_target = IF flag = "ENPASSANT_TRGT" THEN to ELSE NoPosition]
        counted == IF \/ targeted.pieces[frm].type = "pawn"
                      \/ board_bool(targeted.pieces[to])
                   THEN [targeted EXCEPT !.move_counter = 0]
                   ELSE targeted
        moved == single_move(counted, frm, to)
    IN  toggle_color_turn([moved EXCEPT !.move_counter = @ + 1])

\* The squares whose buttons are clicked: e2, e4, e7, e5, g1, f3, d7, d5, g8, f6
Clicks ==
    {<<6, 4>>, <<4, 4>>, <<1, 4>>, <<3, 4>>, <<7, 6>>, <<5, 5>>, <<1, 3>>, <<3, 3>>,
     <<0, 6>>, <<2, 5>>}

\* Root(): the board, its move table, no selection.  moves counts the calls of
\* move_piece and legal tells whether the last one made a move of the board it
\* was made on.
InitRoot ==
    /\ \E board \in {Board(board_START)} :
          root = [board |-> board,
                  all_possible_moves |-> get_all_possible_moves(board),
                  selected_pos |-> NoPosition,
                  event |-> "__init__",
                  moves |-> 0,
                  legal |-> TRUE]
    /\ NoBoard
    /\ requests = << >>
    /\ game = None

\* on_click of the button at pos, where a move of the selected piece goes to pos
on_click_move(pos) ==
    /\ root.selected_pos # NoPosition
    /\ pos # root.selected_pos
    /\ root.moves < MaxPlies
    /\ \E move \in root.all_possible_moves[root.selected_pos] :
          /\ pos = move.to
          /\ \E board \in {move_piece(root.board, root.selected_pos, move.to, move.flag)} :
                root' = [board |-> board,
                         all_possible_moves |-> get_all_possible_moves(board),
                         selected_pos |-> IF Board_king_missing(board)
                                          THEN root.selected_pos ELSE NoPosition,
                         event |-> "move_piece",
                         moves |-> root.moves + 1,
                         legal |-> \E fresh \in {get_all_possible_moves(root.board)} :
                                      /\ root.selected_pos \in DOMAIN fresh
                                      /\ move \in fresh[root.selected_pos]]
    /\ UNCHANGED <<fen_string, data, color_move, castling_perm, enpassant_target,
                   all_moves_cache, raised, last_move, last_cached, plies, requests, game>>

\* on_click of the button at pos in every other case: the selection is dropped,
\* kept or set
on_click_select(pos) ==
    /\ IF root.selected_pos = NoPosition \/ pos = root.selected_pos THEN TRUE
       ELSE ~ \E move \in root.all_possible_moves[root.selected_pos] : pos = move.to
    /\ root' = [root EXCEPT
                   !.selected_pos =
                       IF root.selected_pos # NoPosition /\ pos = root.selected_pos
                       THEN NoPosition
                       ELSE IF pos \notin DOMAIN root.all_possible_moves THEN @
                       ELSE pos,
                   !.event = "on_click"]
    /\ UNCHANGED <<fen_string, data, color_move, castling_perm, enpassant_target,
                   all_moves_cache, raised, last_move, last_cached, plies, requests, game>>

\* Root.reset: self.board = Board()
reset ==
    /\ root' = [root EXCEPT !.board = Board(board_START), !.event = "reset"]
    /\ UNCHANGED <<fen_string, data, color_move, castling_perm, enpassant_target,
                   all_moves_cache, raised, last_move, last_cached, plies, requests, game>>

NextRoot ==
    \/ \E pos \in Clicks : on_click_move(pos) \/ on_click_select(pos)
    \/ reset

SpecRoot == InitRoot /\ [][NextRoot]_vars

-----------------------------------------------------------------------------
\* game.py, several boards: the objects of the module and the boards that refer to
\* them.  A board holds references (the names of the objects), as self.data and
\* self.castling_flags do.

INITIAL_CASTING_FLAGS == [color \in {WHITE, BLACK} |-> <<TRUE, TRUE>>]

\* The objects made when the module is imported
game_objects ==
    [EMPTY_BOARD |-> EMPTY_BOARD, INITIAL_CASTING_FLAGS |-> INITIAL_CASTING_FLAGS]

\* Board.__init__: the attributes are bound to the objects of the module
game_Board ==
    [data |-> "EMPTY_BOARD", color_to_move |-> WHITE, enpassant_target |-> NoPosition,
     castling_flags |-> "INITIAL_CASTING_FLAGS"]

\* The names the caller binds boards to
BoardNames == {"a", "b"}

\* The squares and pieces the caller writes
WrittenSquares == {<<6, 3>>, <<4, 4>>}

InitBoards ==
    /\ game = [objects |-> game_objects,
               boards |-> << >>,
               call |-> [name |-> "import", board |-> "", fen |-> << >>]]
    /\ NoBoard
    /\ requests = << >>
    /\ root = None

\* name = Board.from_fen(fen): cls() and the writes board[row, col] = PieceType(color)
call_from_fen(name, fen) ==
    /\ \E board \in {game_Board} :
          game' = [objects |-> [game.objects EXCEPT ![board.data] = from_fen(@, fen)],
                   boards |-> DictSet(game.boards, name, board),
                   call |-> [name |-> "from_fen", board |-> name, fen |-> fen]]
    /\ UNCHANGED <<fen_string, data, color_move, castling_perm, enpassant_target,
                   all_moves_cache, raised, last_move, last_cached, plies, requests, root>>

\* name[pos] = Queen(Color.WHITE): UserDict.__setitem__ writes self.data[pos]
call_setitem(name, pos) ==
    /\ name \in DOMAIN game.boards
    /\ game' = [game EXCEPT
                   !.objects[game.boards[name].data][pos] = game_Piece(WHITE, "Queen"),
                   !.call = [name |-> "__setitem__", board |-> name, fen |-> << >>]]
    /\ UNCHANGED <<fen_string, data, color_move, castling_perm, enpassant_target,
                   all_moves_cache, raised, last_move, last_cached, plies, requests, root>>

\* del name[pos]: Board.__delitem__ writes self.data[pos] = Empty()
call_delitem(name, pos) ==
    /\ name \in DOMAIN game.boards
    /\ game' = [game EXCEPT
                   !.objects[game.boards[name].data][pos] = game_Empty,
                   !.call = [name |-> "__delitem__", board |-> name, fen |-> << >>]]
    /\ UNCHANGED <<fen_string, data, color_move, castling_perm, enpassant_target,
                   all_moves_cache, raised, last_move, last_cached, plies, requests, root>>

\* name.castling_flags[color][side] = False, side 0 or 1
set_castling_flag(name, color, side) ==
    /\ name \in DOMAIN game.boards
    /\ game' = [game EXCEPT
                   !.objects[game.boards[name].castling_flags][color][side + 1] = FALSE,
                   !.call = [name |-> "castling_flags", board |-> name, fen |-> << >>]]
    /\ UNCHANGED <<fen_string, data, color_move, castling_perm, enpassant_target,
                   all_moves_cache, raised, last_move, last_cached, plies, requests, root>>

NextBoards ==
    \E name \in BoardNames :
        \/ \E fen \in GAME_FENS : call_from_fen(name, fen)
        \/ \E pos \in WrittenSquares : call_setitem(name, pos) \/ call_delitem(name, pos)
        \/ \E side \in {0, 1} : set_castling_flag(name, WHITE, side)

SpecBoards == InitBoards /\ [][NextBoards]_vars

-----------------------------------------------------------------------------
\* Boards on which every kind of piece attacks
FENS_ATTACKS == {FEN_PROMOTION, FEN_PIECES}

InitAttacks == Constructed(FENS_ATTACKS) /\ Direct

SpecAttacks == InitAttacks /\ [][Next]_vars

----------------------------------------------------------------------------
\* Properties

Colors == {WHITE, BLACK}

\* The color that made the last move
Mover == other(color_move)

RowOf(pos) == pos_tup(pos)[1]

IsDoubleAdvance(move) ==
    move.piece.type = "pawn" /\ RangeLen(RowOf(move.frm), RowOf(move.to)) = 2

\* C1: after execute_move of a cached move, the king of the color that just moved
\* is not attacked.
C1_KingSafeAfterMove ==
    last_move # NoMove =>
        /\ find_king(Self, Mover) # StopIteration
        /\ kingcheck_safe(Self, find_king(Self, Mover), Mover)

\* A king has just moved, in reply to a move of the other side, and stands unattacked.
C1_Witness ==
    /\ plies = 2
    /\ last_move.piece = King(Mover)
    /\ kingcheck_safe(Self, find_king(Self, Mover), Mover)

\* C2: after a two-square pawn advance enpassant_target is the landing square,
\* after any other move it is None.
C2_EnPassantLifecycle ==
    last_move # NoMove =>
        IF IsDoubleAdvance(last_move) THEN enpassant_target = last_move.to
        ELSE enpassant_target = None

\* C3: a castling right that is false is false after every execute_move.
C3_CastlingMonotone ==
    [][\A color_side \in DOMAIN castling_perm :
          ~ castling_perm[color_side] => ~ castling_perm'[color_side]]_vars

\* White lost the king-side right on the first move and still lacks it after Black's
\* reply, which left Black's own right alone.
C3_Witness ==
    /\ plies = 2
    /\ ~ castling_perm[<<WHITE, KING_SIDE>>]
    /\ castling_perm[<<BLACK, QUEEN_SIDE>>]

E5 == pos_str(3, 4)
D7 == pos_str(1, 3)
D6 == pos_str(2, 3)
D5 == pos_str(3, 3)

\* C4: with a white pawn on e5, right after Black's d7-d5 the cache of e5 holds a
\* move to d6 that carries the en passant capture (whose execution empties d5).
C4_EnPassantOffered ==
    (/\ last_move # NoMove
     /\ last_move.piece = Pawn(BLACK) /\ last_move.frm = D7 /\ last_move.to = D5
     /\ data[E5] = Pawn(WHITE))
    => /\ E5 \in DOMAIN all_moves_cache
       /\ \E move \in all_moves_cache[E5] :
            /\ move.to = D6
            /\ move.enpassant_capture # None
            /\ D5 \in DOMAIN move.updates /\ move.updates[D5] = Empty

\* C5: a rook move clears only the right of the corner it left, a rook move from
\* any other square clears nothing, and so does a move of a piece that is neither
\* king nor rook.
C5_RookRights ==
    [][LET move == last_move'
           color == color_move
           br == back_rank(color)
       IN  IF move.piece.type = "rook" THEN
               IF move.frm = pos_str(br, 0) THEN
                   castling_perm' = [castling_perm EXCEPT ![<<color, QUEEN_SIDE>>] = FALSE]
               ELSE IF move.frm = pos_str(br, 7) THEN
                   castling_perm' = [castling_perm EXCEPT ![<<color, KING_SIDE>>] = FALSE]
               ELSE castling_perm' = castling_perm
           ELSE move.piece.type # "king" => castling_perm' = castling_perm]_vars

\* C6: execute_move of a Move that is not in the cache leaves the board unchanged.
C6_UncachedRejected ==
    [][~ last_cached' =>
          UNCHANGED <<data, color_move, castling_perm, enpassant_target, all_moves_cache>>]_vars

\* C6 as amended: execute_move of a Move that is not in the cache is carried out
\* like any other: the updates are written, the side to move flips, the en passant
\* target is the move's.
C6_UncachedApplied ==
    [][~ last_cached' =>
          /\ data' = SetItems(data, last_move'.updates, DOMAIN last_move'.updates)
          /\ color_move' = other(color_move)
          /\ enpassant_target' = last_move'.enpassant_target]_vars

\* A king taken from its home square by a move the cache did not hold stands on e4.
C6_Witness ==
    /\ ~ last_cached
    /\ data[pos_str(4, 4)].type = "king"
    /\ data[last_move.frm] = Empty

\* C7: exactly one square holds a White King and exactly one a Black King.
C7_OneKingEach ==
    \A color \in Colors : Cardinality(KingSquares(Self, color)) = 1

CacheEmpty == DOMAIN all_moves_cache = {}

KingAttacked ==
    ~ kingcheck_safe(Self, find_king(Self, color_move), color_move)

C9_TurnExclusive ==
    /\ \A pos \in DOMAIN data : data[pos].color # color_move => pos \notin DOMAIN all_moves_cache
    /\ DOMAIN all_moves_cache \subseteq DOMAIN data

Pieces ==
    {Empty} \cup {Piece(color, type) : color \in Colors,
                    type \in {"pawn", "rook", "knight", "bishop", "queen", "king"}}

\* C10: the mapping has exactly the 64 keys (row, col), row and col in 0..7, each
\* holding a Piece.
C10_TotalMapping ==
    /\ DOMAIN data = {pos_str(row, col) : row \in 0..7, col \in 0..7}
    /\ \A pos \in DOMAIN data : data[pos] \in Pieces

\* A castling move, which writes four squares, has been executed.
C10_Witness ==
    /\ last_move # NoMove
    /\ last_move.castling_flag \in {KING_SIDE, QUEEN_SIDE}
    /\ Cardinality(DOMAIN last_move.updates) = 4

E1 == pos_str(7, 4)
F1 == pos_str(7, 5)
G1 == pos_str(7, 6)
H1 == pos_str(7, 7)

\* The cache holds a move of the king of the side to move with this castling flag.
CastleOffered(flag) ==
    \E frm \in DOMAIN all_moves_cache :
        \E move \in all_moves_cache[frm] :
            move.piece = King(color_move) /\ move.castling_flag = flag

\* The opponent of the side to move attacks the square.
Attacked(pos) == ~ kingcheck_safe(Self, pos, color_move)

EmptyOnBackRank(cols) ==
    \A col \in cols : data[pos_str(back_rank(color_move), col)] = Empty

SafeOnBackRank(cols) ==
    \A col \in cols : ~ Attacked(pos_str(back_rank(color_move), col))

\* C11: the king-side castle is among the legal moves of the king of the side to
\* move exactly when the king-side right is true, f and g of the back rank are empty
\* and the king's square, f and g are not attacked; the queen-side castle exactly
\* when the queen-side right is true, b, c and d are empty and the king's square, d
\* and c are not attacked.
C11_CastlingIff ==
    (~ raised /\ KingSquares(Self, color_move) # {}) =>
        LET king == find_king(Self, color_move)
        IN  /\ CastleOffered(KING_SIDE) <=>
                  /\ castling_perm[<<color_move, KING_SIDE>>]
                  /\ EmptyOnBackRank({5, 6})
                  /\ ~ Attacked(king)
                  /\ SafeOnBackRank({5, 6})
            /\ CastleOffered(QUEEN_SIDE) <=>
                  /\ castling_perm[<<color_move, QUEEN_SIDE>>]
                  /\ EmptyOnBackRank({1, 2, 3})
                  /\ ~ Attacked(king)
                  /\ SafeOnBackRank({3, 2})

\* C12: on the board of FEN_CASTLE the cache of e1 holds the king-side castle to g1,
\* and once it is executed the king stands on g1, the rook on f1, and e1 and h1 are
\* empty.
C12_CastleKingSide ==
    fen_string = FEN_CASTLE =>
        /\ plies = 0 =>
              /\ E1 \in DOMAIN all_moves_cache
              /\ \E move \in all_moves_cache[E1] :
                    move.to = G1 /\ move.castling_flag = KING_SIDE
        /\ (plies = 1 /\ last_move.frm = E1 /\ last_move.to = G1) =>
              /\ data[G1] = King(WHITE)
              /\ data[F1] = Rook(WHITE)
              /\ data[E1] = Empty
              /\ data[H1] = Empty

\* The castle of FEN_CASTLE has been executed.
C12_Witness ==
    /\ fen_string = FEN_CASTLE
    /\ plies = 1
    /\ last_move.castling_flag = KING_SIDE
    /\ data[G1] = King(WHITE)

\* The rank on which a pawn of this color promotes
FarRank(color) == back_rank(other(color))

\* What a pawn move must put on its destination
PawnArrives(move) ==
    IF RowOf(move.to) = FarRank(move.piece.color) THEN Queen(move.piece.color)
    ELSE move.piece

\* C13: every cached pawn move writes a Queen of the pawn's color on a destination
\* of the far rank and the pawn itself on any other destination; after the last
\* executed pawn move the destination holds that piece and the origin is Empty.
C13_Promotion ==
    /\ \A frm \in DOMAIN all_moves_cache :
          \A move \in all_moves_cache[frm] :
              move.piece.type = "pawn" => move.updates[move.to] = PawnArrives(move)
    /\ (last_move # NoMove /\ last_move.piece.type = "pawn") =>
          /\ data[last_move.to] = PawnArrives(last_move)
          /\ data[last_move.frm] = Empty

\* The white a-pawn has taken the knight on b8 and is a queen there.
C13_Witness ==
    /\ last_move # NoMove
    /\ last_move.piece = Pawn(WHITE)
    /\ last_move.frm = pos_str(1, 0)
    /\ last_move.to = pos_str(0, 1)
    /\ data[pos_str(0, 1)] = Queen(WHITE)
    /\ data[pos_str(1, 0)] = Empty

\* C14: the board constructed from FEN_FOOLS_MATE has White to move, an empty cache
\* and White's king attacked: checkmated is true, stalemated is false.
C14_FoolsMate ==
    (fen_string = FEN_FOOLS_MATE /\ plies = 0) =>
        /\ ~ raised
        /\ color_move = WHITE
        /\ CacheEmpty
        /\ KingAttacked
        /\ checkmated(Self)
        /\ ~ stalemated(Self)

\* The board of FEN_FOOLS_MATE has been constructed: the queen on h4 attacks e1.
C14_Witness ==
    /\ fen_string = FEN_FOOLS_MATE
    /\ plies = 0
    /\ data[pos_str(4, 7)] = Queen(BLACK)
    /\ ~ kingcheck_safe(Self, E1, WHITE)

\* C15: the board constructed from FEN_STALEMATE has Black to move, an empty cache
\* and Black's king not attacked: stalemated is true, checkmated is false.
C15_Stalemate ==
    (fen_string = FEN_STALEMATE /\ plies = 0) =>
        /\ ~ raised
        /\ color_move = BLACK
        /\ CacheEmpty
        /\ ~ KingAttacked
        /\ stalemated(Self)
        /\ ~ checkmated(Self)

\* The board of FEN_STALEMATE has been constructed: the king on h8 is not attacked.
C15_Witness ==
    /\ fen_string = FEN_STALEMATE
    /\ plies = 0
    /\ data[pos_str(0, 7)] = King(BLACK)
    /\ kingcheck_safe(Self, pos_str(0, 7), BLACK)

ColOf(pos) == pos_tup(pos)[2]

Abs(n) == IF n >= 0 THEN n ELSE -n

Sign(n) == IF n > 0 THEN 1 ELSE IF n < 0 THEN -1 ELSE 0

\* The squares strictly between two squares of one rank, file or diagonal
Between(a, b) ==
    LET dr == RowOf(b) - RowOf(a)
        dc == ColOf(b) - ColOf(a)
    IN  {pos_str(RowOf(a) + i * Sign(dr), ColOf(a) + i * Sign(dc)) :
            i \in 1..(Max2(Abs(dr), Abs(dc)) - 1)}

ClearBetween(a, b) == \A pos \in Between(a, b) : data[pos] = Empty

\* The piece on from could capture on pos by the movement rule of its kind.
CanCapture(from, pos) ==
    LET piece == data[from]
        dr == RowOf(pos) - RowOf(from)
        dc == ColOf(pos) - ColOf(from)
        straight == (dr = 0 \/ dc = 0) /\ from # pos /\ ClearBetween(from, pos)
        diagonal == Abs(dr) = Abs(dc) /\ from # pos /\ ClearBetween(from, pos)
    IN  CASE piece.type = "knight" -> {Abs(dr), Abs(dc)} = {1, 2}
          [] piece.type = "king" -> Max2(Abs(dr), Abs(dc)) = 1
          [] piece.type = "pawn" -> dr = dir(piece.color) /\ Abs(dc) = 1
          [] piece.type = "rook" -> straight
          [] piece.type = "bishop" -> diagonal
          [] piece.type = "queen" -> straight \/ diagonal
          [] OTHER -> FALSE

\* C16: for every square and either color, kingcheck_safe is false exactly when some
\* piece of the opposite color could capture on the square by its own movement rule,
\* whichever side is to move.
C16_AttackIff ==
    \A color \in Colors :
        LET enemies == {from \in Squares : data[from].color = other(color)}
        IN  \A pos \in Squares :
                kingcheck_safe(Self, pos, color) <=>
                    ~ \E from \in enemies : CanCapture(from, pos)

\* After a move, the black bishop attacks a square at a distance along a clear
\* diagonal, and a square behind a piece on the white rook's line is safe for Black.
C16_Witness ==
    /\ plies > 0
    /\ \E pos \in Squares :
          /\ data[pos] = Bishop(BLACK)
          /\ \E m \in diagonal_moves(pos, 7) :
                Between(pos, m) # {} /\ ~ kingcheck_safe(Self, m, WHITE)
    /\ \E pos \in Squares :
          /\ data[pos] = Rook(WHITE)
          /\ \E m \in perpendicular_moves(pos, 7) :
                ~ ClearBetween(pos, m) /\ kingcheck_safe(Self, m, BLACK)

\* C17: execute_move leaves every square that is no key of move.updates with the
\* piece it had, puts on every key the piece listed for it, and adds or removes no
\* square.
C17_Frame ==
    [][LET move == last_move'
       IN  /\ DOMAIN data' = DOMAIN data
           /\ \A pos \in DOMAIN data :
                 data'[pos] = IF pos \in DOMAIN move.updates THEN move.updates[pos]
                              ELSE data[pos]
           /\ DOMAIN move.updates \subseteq DOMAIN data']_vars

\* White has castled in reply to a move of the black king: four squares were
\* written, the black king is where it went.
C17_Witness ==
    /\ fen_string = FEN_CORNER
    /\ plies = 2
    /\ last_move.castling_flag = KING_SIDE
    /\ DOMAIN last_move.updates = {E1, F1, G1, H1}
    /\ KingSquares(Self, BLACK) # {}
    /\ data[F1] = Rook(WHITE)

\* C18: construction from a malformed string ends in an exception and leaves no
\* board.
C18_MalformedRejected ==
    fen_string \in MALFORMED => (raised /\ data = << >>)

\* C19: from a board that is checkmated or stalemated no execute_move of a cached
\* move follows: squares, side to move, rights, en passant target, cache, and with
\* them the classification, stay as they are.
C19_TerminalAbsorbing ==
    [][(checkmated(Self) \/ stalemated(Self)) =>
          UNCHANGED <<data, color_move, castling_perm, enpassant_target,
                      all_moves_cache>>]_vars

\* White's queen move has stalemated Black with moves still to be made.
C19_Witness ==
    /\ fen_string = FEN_QUEEN
    /\ plies = 1
    /\ plies < MaxPlies
    /\ stalemated(Self)
    /\ color_move = BLACK

\* The k-th space-separated field of the string the board was constructed from
FenField(k) == Split(fen_string, " ")[k]

RECURSIVE RankSquare(_, _)
\* What a rank of the placement field names for the file col (from 0): a piece
\* letter, or " " for a square inside a run of empty squares
RankSquare(rank, col) ==
    IF rank = << >> THEN "?"
    ELSE IF CharIn(Head(rank), Digits) THEN
        IF col < int(Head(rank)) THEN " "
        ELSE RankSquare(Tail(rank), col - int(Head(rank)))
    ELSE IF col = 0 THEN Head(rank)
    ELSE RankSquare(Tail(rank), col - 1)

\* The piece the placement field names for a square
Named(row, col) == FEN_MAP[RankSquare(Split(FenField(1), "/")[row + 1], col)]

\* C20: right after construction every square holds the piece the placement field
\* names for it, color_move is White exactly when the second field is w, and each
\* castling right is true exactly when its letter occurs in the third field.
C20_FenHonoured ==
    (plies = 0 /\ ~ raised) =>
        /\ \A row \in 0..7 : \A col \in 0..7 : data[pos_str(row, col)] = Named(row, col)
        /\ color_move = WHITE <=> FenField(2) = <<"w">>
        /\ color_move \in Colors
        /\ castling_perm[<<WHITE, KING_SIDE>>] <=> CharIn("K", FenField(3))
        /\ castling_perm[<<WHITE, QUEEN_SIDE>>] <=> CharIn("Q", FenField(3))
        /\ castling_perm[<<BLACK, KING_SIDE>>] <=> CharIn("k", FenField(3))
        /\ castling_perm[<<BLACK, QUEEN_SIDE>>] <=> CharIn("q", FenField(3))

\* The board of FEN_ROOKS has been constructed: rights K and q only, the white
\* a-rook on a2, White to move.
C20_Witness ==
    /\ fen_string = FEN_ROOKS
    /\ plies = 0
    /\ color_move = WHITE
    /\ castling_perm[<<WHITE, KING_SIDE>>] /\ ~ castling_perm[<<WHITE, QUEEN_SIDE>>]
    /\ castling_perm[<<BLACK, QUEEN_SIDE>>] /\ ~ castling_perm[<<BLACK, KING_SIDE>>]
    /\ data[pos_str(6, 0)] = Rook(WHITE)
    /\ data[pos_str(0, 0)] = Rook(BLACK)

\* The cache is what recompute_all_moves gives for the board as it stands.
CacheFresh ==
    \E board \in {Self} :
       all_moves_cache = recompute_all_moves(board).all_moves_cache

\* C21: right after construction the cache is the legal moves of the side to move,
\* and every execute_move flips color_move and leaves the cache equal to the legal
\* moves of the new side to move on the new board.
C21_CacheConsistent ==
    /\ []CacheFresh
    /\ [][color_move' = other(color_move)]_vars

\* The candidate moves of every piece on the board
Candidates(board) ==
    UNION {possible_moves(board.data[pos], board, pos) : pos \in DOMAIN board.data}

\* C22: filtering any candidate move of any piece with final_checks leaves the board
\* it was given (squares, color_move, castling_perm, enpassant_target) as it was; the
\* simulated move is made on a second object.
C22_ReadOnly ==
    \E board \in {Self} :
       \A move \in Candidates(board) :
          final_checks_heap(<<board>>, 1, move)[1] = board

\* A candidate move was simulated: the copy differs from the board it was made of.
C22_Witness ==
    /\ plies > 0
    /\ \E board \in {Self} :
          \E move \in Candidates(board) :
             \E after \in {final_checks_heap(<<board>>, 1, move)} :
                /\ Len(after) = 2
                /\ after[2] # board
                /\ after[2].data[move.frm] = Empty
                /\ after[1] = board

\* The squares of the pawns of the side to move
PawnSquares == {pos \in DOMAIN data : data[pos] = Pawn(color_move)}

\* The square rows rows ahead and cols columns aside of a pawn of the side to move
Ahead(frm, rows, cols) == add_pos(frm, <<rows * dir(color_move), cols>>)

IsEmpty(pos) == pos \in DOMAIN data /\ data[pos] = Empty

\* The position after the pieces of updates are put down leaves the mover's king
\* unattacked.
KingSafeAfter(updates) ==
    \E board \in {[Self EXCEPT !.data = updates @@ data]} :
       kingcheck_safe(board, find_king(board, color_move), color_move)

\* The cache of frm holds a move to the square to; en_passant tells whether it
\* carries an en passant capture.
Cached(frm, to, en_passant) ==
    /\ frm \in DOMAIN all_moves_cache
    /\ \E move \in all_moves_cache[frm] :
          move.to = to /\ (move.enpassant_capture # None) = en_passant

\* The piece a pawn of the side to move becomes on the square to
Arriving(to) ==
    IF RowOf(to) = back_rank(other(color_move)) THEN Queen(color_move)
    ELSE Pawn(color_move)

\* A pawn takes en passant whenever the target is the square beside it, on the
\* column of its diagonal step.
EnPassantCategory ==
    \A frm \in PawnSquares :
       \A side \in {1, -1} :
          (/\ enpassant_target = Ahead(frm, 0, side)
           /\ IsEmpty(Ahead(frm, 1, side))
           /\ KingSafeAfter((frm :> Empty) @@ (Ahead(frm, 0, side) :> Empty)
                            @@ (Ahead(frm, 1, side) :> Pawn(color_move))))
          => Cached(frm, Ahead(frm, 1, side), TRUE)

\* Diagonal capture, single step and double step are each in the cache whenever
\* their own condition holds.
OtherCategories ==
    \A frm \in PawnSquares :
       /\ \A side \in {1, -1} :
             (/\ in_bounds(Ahead(frm, 1, side))
              /\ data[Ahead(frm, 1, side)].color = other(color_move)
              /\ KingSafeAfter((frm :> Empty)
                               @@ (Ahead(frm, 1, side) :> Arriving(Ahead(frm, 1, side)))))
             => Cached(frm, Ahead(frm, 1, side), FALSE)
       /\ (/\ IsEmpty(Ahead(frm, 1, 0))
           /\ KingSafeAfter((frm :> Empty) @@ (Ahead(frm, 1, 0) :> Arriving(Ahead(frm, 1, 0)))))
          => Cached(frm, Ahead(frm, 1, 0), FALSE)
       /\ (/\ RowOf(frm) = pawn_rank(color_move)
           /\ IsEmpty(Ahead(frm, 1, 0)) /\ IsEmpty(Ahead(frm, 2, 0))
           /\ KingSafeAfter((frm :> Empty) @@ (Ahead(frm, 2, 0) :> Pawn(color_move))))
          => Cached(frm, Ahead(frm, 2, 0), FALSE)

\* C23: each of the four kinds of pawn move (en passant capture, diagonal capture,
\* single step, double step) is in the cache whenever its own condition holds and
\* the move leaves the king safe, whatever the other kinds do.
C23_PawnCategories == EnPassantCategory /\ OtherCategories

\* C24: a two-square pawn advance is in the cache only if the pawn stands on the
\* starting rank of its color and the square it passes and the square it lands on
\* are both empty.
C24_DoubleStep ==
    \A frm \in DOMAIN all_moves_cache :
       \A move \in all_moves_cache[frm] :
          IsDoubleAdvance(move) =>
             /\ data[frm] = Pawn(color_move)
             /\ RowOf(frm) = pawn_rank(color_move)
             /\ move.to = Ahead(frm, 2, 0)
             /\ IsEmpty(Ahead(frm, 1, 0))
             /\ IsEmpty(move.to)

\* After two moves a pawn on its starting rank has an empty square two ahead and
\* a piece right in front and no move at all, while another pawn has its double
\* step in the cache.
C24_Witness ==
    /\ plies = 2
    /\ \E frm \in PawnSquares :
          /\ RowOf(frm) = pawn_rank(color_move)
          /\ ~ IsEmpty(Ahead(frm, 1, 0)) /\ IsEmpty(Ahead(frm, 2, 0))
          /\ frm \notin DOMAIN all_moves_cache
    /\ \E frm \in PawnSquares : Cached(frm, Ahead(frm, 2, 0), FALSE)

\* Two squares of one rank, file or diagonal
Aligned(a, b) ==
    \/ RowOf(a) = RowOf(b)
    \/ ColOf(a) = ColOf(b)
    \/ Abs(RowOf(b) - RowOf(a)) = Abs(ColOf(b) - ColOf(a))

KnightOffset(a, b) == {Abs(RowOf(b) - RowOf(a)), Abs(ColOf(b) - ColOf(a))} = {1, 2}

\* No cached rook, bishop or queen move passes over a piece.
SlidersPassNothing ==
    \A frm \in DOMAIN all_moves_cache :
       \A move \in all_moves_cache[frm] :
          move.piece.type \in {"rook", "bishop", "queen"} =>
             Aligned(frm, move.to) /\ ClearBetween(frm, move.to)

\* C25: obstruction(board, frm, to) is true exactly when frm and to share a rank,
\* file or diagonal and some square strictly between them is occupied (so it is
\* false for adjacent squares and for every knight offset), and no cached rook,
\* bishop or queen move passes over a piece.
C25_ObstructionIff ==
    /\ \E board \in {Self} :
          \A frm \in Squares : \A to \in Squares :
             obstruction(board, frm, to) <=>
                (Aligned(frm, to) /\ ~ ClearBetween(frm, to))
    /\ SlidersPassNothing

\* C25, amended: for frm and to that share a rank, file or diagonal obstruction is
\* true exactly when some square strictly between them is occupied, for every
\* knight offset it is false, and no cached rook, bishop or queen move passes over
\* a piece.
C25_ObstructionOnLines ==
    /\ \E board \in {Self} :
          \A frm \in Squares : \A to \in Squares :
             /\ Aligned(frm, to) => (obstruction(board, frm, to) <=> ~ ClearBetween(frm, to))
             /\ KnightOffset(frm, to) => ~ obstruction(board, frm, to)
    /\ SlidersPassNothing

\* After a move, obstruction tells a rook or bishop blocked on a line with a piece
\* on it, and tells a rook or bishop of the side to move free on a clear line of
\* three squares or more, a move the cache holds.
C25_Witness ==
    /\ plies > 0
    /\ \E frm \in Squares :
          /\ data[frm].type \in {"rook", "bishop"}
          /\ \E to \in Squares :
                /\ Aligned(frm, to) /\ ~ ClearBetween(frm, to)
                /\ obstruction(Self, frm, to)
    /\ \E frm \in Squares :
          /\ data[frm].type \in {"rook", "bishop"} /\ data[frm].color = color_move
          /\ \E to \in Squares :
                /\ Aligned(frm, to) /\ Cardinality(Between(frm, to)) >= 2
                /\ ClearBetween(frm, to)
                /\ ~ obstruction(Self, frm, to)
                /\ Cached(frm, to, FALSE)

\* The distance of two squares of one diagonal, 0 for other squares
OnDiagonal(a, b) ==
    IF Abs(RowOf(b) - RowOf(a)) = Abs(ColOf(b) - ColOf(a))
    THEN Abs(RowOf(b) - RowOf(a)) ELSE 0

\* The distance of two squares of one rank or file, 0 for other squares
OnRankOrFile(a, b) ==
    IF RowOf(a) = RowOf(b) THEN Abs(ColOf(b) - ColOf(a))
    ELSE IF ColOf(a) = ColOf(b) THEN Abs(RowOf(b) - RowOf(a))
    ELSE 0

\* On every square of rows and columns 0..7 the three generators give the squares
\* of the grid on the lines of that square, up to the distance asked for.
GeneratorsExact ==
    \A sq \in Squares :
       /\ \A d \in 1..7 :
             /\ diagonal_moves(sq, d) = {to \in Squares : OnDiagonal(sq, to) \in 1..d}
             /\ perpendicular_moves(sq, d) = {to \in Squares : OnRankOrFile(sq, to) \in 1..d}
       /\ l_shaped_moves(sq) = {to \in Squares : KnightOffset(sq, to)}

\* C26: the squares of the board are those of rows and columns 0..7, and for every
\* one of them, sq, and every distance d of 1..7, diagonal_moves(sq, d) is the set of
\* the squares of the grid at distance 1..d on the diagonals of sq,
\* perpendicular_moves(sq, d) that of those on its rank and file, and
\* l_shaped_moves(sq) that of the squares of the grid a knight offset away; none
\* holds sq or a square outside the grid.
C26_Generators == DOMAIN data = Squares /\ GeneratorsExact

\* After two moves the side to move has a knight whose cached moves all go a knight
\* offset away, and a queen with a cached move of two squares or more.
C26_Witness ==
    /\ plies = 2
    /\ \E frm \in DOMAIN all_moves_cache :
          /\ data[frm] = Knight(color_move)
          /\ \A move \in all_moves_cache[frm] : move.to \in l_shaped_moves(frm)
    /\ \E frm \in DOMAIN all_moves_cache :
          /\ data[frm] = Queen(color_move)
          /\ \E move \in all_moves_cache[frm] :
                move.to \in diagonal_moves(frm, 7) \ diagonal_moves(frm, 1)

\* C30: after a castling move, and after any other move of a king, both castling
\* rights of the mover's color are false; and the cache offers a castling move only
\* to a king on its original square.
C30_KingMovedNoCastle ==
    /\ (last_move # NoMove /\ last_move.piece.type = "king") =>
          /\ ~ castling_perm[<<Mover, KING_SIDE>>]
          /\ ~ castling_perm[<<Mover, QUEEN_SIDE>>]
    /\ \A frm \in DOMAIN all_moves_cache :
          \A move \in all_moves_cache[frm] :
             move.castling_flag \in {KING_SIDE, QUEEN_SIDE} =>
                frm = pos_str(back_rank(color_move), 4)

\* C27: under every interleaving of two choose_move requests, each move applied to
\* the board is in the legal-move cache of the board at the moment it is applied.
C27_AppliedFromCache == plies > 0 => last_cached

\* The squares of the grid from which a pawn of the other color captures onto pos
PawnCapturesOnto(pos, color) ==
    {from \in (0..7) \X (0..7) :
        /\ from[1] = pos[1] + (IF color = WHITE THEN -1 ELSE 1)
        /\ Abs(from[2] - pos[2]) = 1}

PawnAttacks(pos, color) ==
    \E from \in PawnCapturesOnto(pos, color) :
       game.data[from] = game_Piece(IF color = WHITE THEN BLACK ELSE WHITE, "Pawn")

\* C29: kingcheck_safe(board, pos, color) of game.py is false whenever an enemy pawn
\* stands on a square from which it captures onto pos, and checked(color) is true
\* whenever such a pawn attacks the king of color.
C29_PawnAttackSeen ==
    /\ (game.call.name = "kingcheck_safe" /\ PawnAttacks(game.call.pos, game.call.color))
          => game.result = "False"
    /\ (/\ game.call.name = "checked"
        /\ game.result # "StopIteration"
        /\ PawnAttacks(king_pos(game.data, game.call.color), game.call.color))
          => game.result = "True"

\* C28: after Root.reset() the move table is get_all_possible_moves() of the new
\* board and no selection survives, and every move that move_piece makes is a
\* legal move of the board it is made on.
C28_ResetFresh ==
    /\ root.legal
    /\ root.event = "reset" =>
          /\ root.selected_pos = NoPosition
          /\ root.all_possible_moves = get_all_possible_moves(root.board)

\* The number of pieces of the color on the squares
PieceCount(squares, color) ==
    Cardinality({pos \in DOMAIN squares : squares[pos].color = color})

\* Every castle the cache offers has a rook of the side to move on its corner.
CastleHasRook ==
    /\ CastleOffered(KING_SIDE) => data[pos_str(back_rank(color_move), 7)] = Rook(color_move)
    /\ CastleOffered(QUEEN_SIDE) => data[pos_str(back_rank(color_move), 0)] = Rook(color_move)

\* C31: executing a cached move never increases the number of pieces of either
\* color, leaves the mover's pieces as many as they were and removes at most one
\* piece of the opponent; a castle is only in the cache when a rook of the side to
\* move stands on the corresponding corner.
C31_PiecesConserved ==
    /\ []CastleHasRook
    /\ [][/\ PieceCount(data', color_move) = PieceCount(data, color_move)
          /\ PieceCount(data', other(color_move)) <= PieceCount(data, other(color_move))
          /\ PieceCount(data, other(color_move)) - PieceCount(data', other(color_move)) <= 1]_vars

\* C32: no White pawn stands on row 0 and no Black pawn on row 7, and for no pawn
\* on the board does Pawn.moves index a square outside the grid.
C32_NoPawnOnFarRank ==
    \A pos \in DOMAIN data :
        data[pos].type = "pawn" =>
            /\ RowOf(pos) # FarRank(data[pos].color)
            /\ ~ Pawn_moves_raises(data[pos], Self, pos)

\* After White's pawn, Black's h-pawn has arrived on row 7 and is a queen there.
C32_Witness ==
    /\ plies = 2
    /\ ~ raised
    /\ last_move.piece = Pawn(BLACK)
    /\ RowOf(last_move.to) = 7
    /\ data[last_move.to] = Queen(BLACK)
    /\ \E pos \in DOMAIN data : data[pos] = Queen(WHITE) /\ RowOf(pos) = 0

\* What the board bound to the name holds: its squares and its castling flags
Contents(g, name) ==
    [data |-> g.objects[g.boards[name].data],
     castling_flags |-> g.objects[g.boards[name].castling_flags]]

\* The board just made by from_fen has the pieces of its FEN and nothing else, and
\* the castling flags of a new board.
FreshFromFen ==
    game.call.name = "from_fen" =>
        Contents(game, game.call.board) =
            [data |-> from_fen(EMPTY_BOARD, game.call.fen),
             castling_flags |-> INITIAL_CASTING_FLAGS]

\* C33: a board made by Board.from_fen of game.py holds exactly the squares its FEN
\* names, whatever boards were made or changed before, and a call that makes or
\* changes one board leaves every other board as it was.
C33_BoardsIndependent ==
    /\ []FreshFromFen
    /\ [][\A name \in DOMAIN game.boards :
             game'.call.board # name => Contents(game', name) = Contents(game, name)]_vars

====
